---- MODULE Spec2Model ----
(***************************************************************************)
(* Model of the GuardianAI real-time moderation pipeline                   *)
(* (src/bot/handlers/message.py, MessageHandler).                          *)
(*                                                                         *)
(* Every event is handled by one asyncio coroutine.  All coroutines run on *)
(* one event loop, so a coroutine only gives up control at an await that   *)
(* really suspends (a Telegram call, a download, a database call or        *)
(* asyncio.sleep).  One action of the model is the code that runs between  *)
(* two such suspensions.  tasks[i].pc names the call task i is suspended   *)
(* in; the action for that pc is the completion of the call followed by    *)
(* everything the coroutine does up to its next suspension.                *)
(***************************************************************************)
EXTENDS Integers, Sequences, FiniteSets, TLC

\* ---------------------------------------------------------------- bounds
MaxEvents == 2
Chats == {1, 2}
Users == {1, 2}
\* values the environment may give MAX_MESSAGES_PER_MINUTE and RAID_THRESHOLD
Limits == {1, 2}

\* ------------------------------------------------------ program constants
MsgHorizon == 60
JoinHorizon == 300
TtlNsfw == 10
TtlThreat == 15
TtlLink == 10
TtlRaid == 30

\* the readings the clock takes: two readings are equal, or apart by exactly
\* the message horizon, by less than the join horizon or by exactly the join
\* horizon
Readings == {0, MsgHorizon, JoinHorizon}

\* the coroutines that may be in flight at the same time
Tasks == {1, 2}

Kinds == {"none", "photo", "sticker", "document_image", "document", "audio", "video"}
Texts == {"plain", "url_token"}

VARIABLES
  clock,               \* the reading datetime.now() returns
  tasks,               \* one record per event coroutine
  user_message_count,  \* chat -> user -> timestamps
  recent_joins,        \* chat -> join timestamps
  enabled_groups,      \* GuardianBot.enabled_groups
  config,              \* the Config fields the pipeline reads
  arrived,             \* number of events received so far
  msgLog,              \* history: every timestamp ever recorded per (chat,user)
  joinLog,             \* history: every join timestamp ever recorded per chat
  breachAlerts,        \* history: raid alerts dispatched per chat since a join
                       \* last found the window below the threshold
  command,             \* history: the last admin command handled
  scored,              \* history: the last content handed to a scorer and
                       \* the result the scorer returned
  groups_table,        \* the chat ids the database holds as enabled
  boot                 \* GuardianBot.start and the enable_group calls in
                       \* flight

vars == <<clock, tasks, user_message_count, recent_joins, enabled_groups,
          config, arrived, msgLog, joinLog, breachAlerts, command, scored,
                 groups_table, boot>>

\* ------------------------------------------------------------ sequences
RECURSIVE SelectAfter(_, _)
\* [ts for ts in w if ts > cutoff]
SelectAfter(w, cutoff) ==
  IF w = <<>> THEN <<>>
  ELSE IF Head(w) > cutoff THEN <<Head(w)>> \o SelectAfter(Tail(w), cutoff)
       ELSE SelectAfter(Tail(w), cutoff)

\* _update_user_activity / _track_join: append now, drop what is not newer
\* than now - horizon
\* an update that starts a fresh list every time
UpdatedWindowReset(w, now, horizon) == SelectAfter(<<now>>, now - horizon)
\* an update that never drops anything
UpdatedWindowNoPrune(w, now, horizon) == Append(w, now)
UpdatedWindow(w, now, horizon) == SelectAfter(Append(w, now), now - horizon)

\* the rate test of _check_spam
\* a rate test that already fires on the limit
RateExceededInclusive(w, limit) == Len(w) >= limit
RateExceeded(w, limit) == Len(w) > limit

\* _check_raid
\* a raid test that needs more than the threshold
RaidDetectedStrict(w, threshold) == Len(w) > threshold
\* a raid test that fires on the threshold only
RaidDetectedExact(w, threshold) == Len(w) = threshold
RaidDetected(w, threshold) == Len(w) >= threshold

\* number of timestamps of a history that are younger than the horizon
CountRecent(log, now, horizon) ==
  Cardinality({k \in DOMAIN log : now - log[k] < horizon})


\* ------------------------------------------------------- the configuration
\* nsfw_threshold and every value compared with it are counted in
\* hundredths; so is the value argument of /set_threshold.

\* the defaults of the Config fields the pipeline and /set_threshold touch
DefaultConfig ==
  [nsfw_threshold |-> 60, spam_threshold |-> 5,
   max_messages_per_minute |-> 10, raid_threshold |-> 10,
   block_suspicious_links |-> TRUE, copyright_detection |-> TRUE,
   auto_delete_executables |-> TRUE]

\* an environment variable that is not set (or empty), one that does not
\* parse as a number, one that holds the number n
Unset == [text |-> "unset", val |-> 0]
Junk == [text |-> "junk", val |-> 0]
Num(n) == [text |-> "number", val |-> n]
\* one that holds the word w
Word(w) == [text |-> w, val |-> 0]

\* safe_getenv_int / safe_getenv_float: the number the variable holds, the
\* default when it is not set or does not parse
SafeGetenvNumber(e, default) == IF e.text = "number" THEN e.val ELSE default

\* safe_getenv_bool: os.getenv(key, "true") lower-cased is one of the four
\* words that mean yes; a variable that is not set reads as its default
SafeGetenvBool(e) == e.text \in {"unset", "true", "1", "yes", "on"}

\* load_config: the four thresholds and the three security toggles
LoadConfig(env) ==
  [nsfw_threshold |-> SafeGetenvNumber(env.NSFW_THRESHOLD, DefaultConfig.nsfw_threshold),
   spam_threshold |-> SafeGetenvNumber(env.SPAM_THRESHOLD, DefaultConfig.spam_threshold),
   max_messages_per_minute |->
     SafeGetenvNumber(env.MAX_MESSAGES_PER_MINUTE, DefaultConfig.max_messages_per_minute),
   raid_threshold |-> SafeGetenvNumber(env.RAID_THRESHOLD, DefaultConfig.raid_threshold),
   block_suspicious_links |-> SafeGetenvBool(env.BLOCK_SUSPICIOUS_LINKS),
   copyright_detection |-> SafeGetenvBool(env.COPYRIGHT_DETECTION),
   auto_delete_executables |-> SafeGetenvBool(env.AUTO_DELETE_EXECUTABLES)]

\* an environment that sets both limits to n
LimitsEnv(n) ==
  [NSFW_THRESHOLD |-> Unset, SPAM_THRESHOLD |-> Unset,
   MAX_MESSAGES_PER_MINUTE |-> Num(n), RAID_THRESHOLD |-> Num(n),
   BLOCK_SUSPICIOUS_LINKS |-> Unset, COPYRIGHT_DETECTION |-> Unset,
    AUTO_DELETE_EXECUTABLES |-> Unset]

\* environments the bot may be started in: nothing set; a rate limit of 2
\* and junk elsewhere; NSFW_THRESHOLD=-0.1 and RAID_THRESHOLD=0
Environments ==
  {[NSFW_THRESHOLD |-> Unset, SPAM_THRESHOLD |-> Unset,
    MAX_MESSAGES_PER_MINUTE |-> Unset, RAID_THRESHOLD |-> Unset,
    BLOCK_SUSPICIOUS_LINKS |-> Unset, COPYRIGHT_DETECTION |-> Unset,
    AUTO_DELETE_EXECUTABLES |-> Unset],
   [NSFW_THRESHOLD |-> Junk, SPAM_THRESHOLD |-> Junk,
    MAX_MESSAGES_PER_MINUTE |-> Num(2), RAID_THRESHOLD |-> Junk,
    BLOCK_SUSPICIOUS_LINKS |-> Unset, COPYRIGHT_DETECTION |-> Unset,
    AUTO_DELETE_EXECUTABLES |-> Unset],
   [NSFW_THRESHOLD |-> Num(-10), SPAM_THRESHOLD |-> Unset,
    MAX_MESSAGES_PER_MINUTE |-> Unset, RAID_THRESHOLD |-> Num(0),
    BLOCK_SUSPICIOUS_LINKS |-> Unset, COPYRIGHT_DETECTION |-> Unset,
    AUTO_DELETE_EXECUTABLES |-> Unset]}

\* /set_threshold <type> <value> with both arguments present and a value
\* that float() parses
Args(type, value) == [argc |-> 2, numeric |-> TRUE, type |-> type, value |-> value]

\* the arguments /set_threshold may be given: a type and a value in and out
\* of range, an unknown type, one argument only, a value that is no number
Arguments ==
  {Args("nsfw", 50), Args("nsfw", 150),
   Args("spam", 100), Args("spam", 2100),
   Args("raid", 500), Args("raid", 400),
   Args("flood", 100),
   [argc |-> 1, numeric |-> TRUE, type |-> "nsfw", value |-> 50],
   [argc |-> 2, numeric |-> FALSE, type |-> "raid", value |-> 0]}

\* what message.chat.type and member.status may read
ChatTypes == {"group", "supergroup", "private"}
Statuses == {"creator", "administrator", "member"}

\* set_threshold_command: two arguments, the second a number
WellFormed(a) == a.argc = 2 /\ a.numeric

\* the confidences _analyze_image_content may return for a decodable image
Confidences == {30, 70}

\* set_threshold_command: the range test of each type
\* a range test without upper limits
InRangeNoUpper(a) ==
  CASE a.type = "nsfw" -> 0 <= a.value
    [] a.type = "spam" -> 100 <= a.value
    [] a.type = "raid" -> 500 <= a.value
    [] OTHER -> FALSE
InRange(a) ==
  CASE a.type = "nsfw" -> 0 <= a.value /\ a.value <= 100
    [] a.type = "spam" -> 100 <= a.value /\ a.value <= 2000
    [] a.type = "raid" -> 500 <= a.value /\ a.value <= 5000
    [] OTHER -> FALSE

\* set_threshold_command: the configuration after an accepted command
\* (int(value) for spam and raid)
WithThreshold(cfg, a) ==
  CASE a.type = "nsfw" -> [cfg EXCEPT !.nsfw_threshold = a.value]
    [] a.type = "spam" -> [cfg EXCEPT !.spam_threshold = a.value \div 100]
    [] a.type = "raid" -> [cfg EXCEPT !.raid_threshold = a.value \div 100]

\* the thresholds the pipeline reads when it handles an event of group c:
\* detect_image, _check_spam and _check_raid read the one Config object
ThresholdsApplied(c) ==
  [nsfw |-> config.nsfw_threshold, rate |-> config.max_messages_per_minute,
   raid |-> config.raid_threshold]

\* detect_image: an image that cannot be decoded is given confidence 0.0,
\* and is_nsfw = confidence > nsfw_threshold
NsfwVerdict(decodable, conf, threshold) ==
  (IF decodable THEN conf ELSE 0) > threshold

\* ------------------------------------------------------------------ texts
\* A text is its ASCII characters (body) followed by a number of characters
\* whose code point is above 0x1F600 (emoji); where emoji > 0 the body is
\* empty or ends in a blank and neighbouring emoji differ.
Text(body, emoji) == [body |-> body, emoji |-> emoji]
Length(t) == Len(t.body) + t.emoji

CharAt(s, p) == SubSeq(s, p, p)
CharsOf(s) == {CharAt(s, p) : p \in 1..Len(s)}
UpperCase == "ABCDEFGHIJKLMNOPQRSTUVWXYZ"
LowerCase == "abcdefghijklmnopqrstuvwxyz"
Digits == "0123456789"
\* \w, \d and \s for ASCII text
WordChars == CharsOf(UpperCase) \cup CharsOf(LowerCase) \cup CharsOf(Digits) \cup {"_"}
DigitChars == CharsOf(Digits)
SpaceChars == {" ", "\t", "\n"}

\* str.lower()
LowerChar(c) ==
  IF c \in CharsOf(UpperCase)
  THEN CharAt(LowerCase, CHOOSE k \in 1..26 : CharAt(UpperCase, k) = c)
  ELSE c
RECURSIVE ToLower(_)
ToLower(s) == IF s = "" THEN "" ELSE LowerChar(CharAt(s, 1)) \o ToLower(Tail(s))

\* the number of characters of s that are in the set cs
RECURSIVE CountIn(_, _)
CountIn(s, cs) ==
  IF s = "" THEN 0
  ELSE (IF CharAt(s, 1) \in cs THEN 1 ELSE 0) + CountIn(Tail(s), cs)

\* w occurs in s at position p
At(s, p, w) == p >= 1 /\ p + Len(w) - 1 <= Len(s) /\ SubSeq(s, p, p + Len(w) - 1) = w
\* keyword in s
Contains(s, w) == \E p \in 1..Len(s) : At(s, p, w)

\* \b before position p: exactly one of the characters p-1 and p is a word
\* character
WordAt(s, p) == p \in 1..Len(s) /\ CharAt(s, p) \in WordChars
Boundary(s, p) == WordAt(s, p - 1) # WordAt(s, p)
\* w occurs at p, with \b before it (lb) and after it (rb) where asked
Occurs(s, w, p, lb, rb) ==
  /\ At(s, p, w)
  /\ lb => Boundary(s, p)
  /\ rb => Boundary(s, p + Len(w))
\* re.search of (a1|a2|...) in s
SearchAny(s, A, lb, rb) == \E a \in A : \E p \in 1..Len(s) : Occurs(s, a, p, lb, rb)
\* re.search of (a1|...).*(b1|...) in s: "." matches no newline
SearchThen(s, A, lbA, rbA, B, lbB, rbB) ==
  \E a \in A : \E p \in 1..Len(s) :
    /\ Occurs(s, a, p, lbA, rbA)
    /\ \E b \in B : \E q \in (p + Len(a))..Len(s) :
         /\ Occurs(s, b, q, lbB, rbB)
         /\ \A k \in (p + Len(a))..(q - 1) : CharAt(s, k) # "\n"

\* the first position from p on whose character is not in cs
RECURSIVE Skip(_, _, _)
Skip(s, p, cs) ==
  IF p <= Len(s) /\ CharAt(s, p) \in cs THEN Skip(s, p + 1, cs) ELSE p

\* str.split(): the maximal runs of characters that are not white space
RECURSIVE WordsFrom(_, _)
WordsFrom(s, p) ==
  LET b == Skip(s, p, SpaceChars)
      e == Skip(s, b, CharsOf(s) \ SpaceChars)
  IN IF b > Len(s) THEN <<>> ELSE <<SubSeq(s, b, e - 1)>> \o WordsFrom(s, e)
Split(s) == WordsFrom(s, 1)

\* the characters the URL pattern of detector.py and scanner.py accepts after
\* the scheme: letters, digits, the range $-_ and ! * \ ( ) ,
UrlChars ==
  CharsOf(UpperCase) \cup CharsOf(LowerCase) \cup CharsOf(Digits)
    \cup CharsOf("$%&'()*+,-./:;<=>?@[\\]^_!")
\* re.findall of the URL pattern: leftmost matches, each as long as possible
RECURSIVE UrlsFrom(_, _)
UrlsFrom(s, p) ==
  LET b == IF At(s, p, "https://") THEN p + 8
           ELSE IF At(s, p, "http://") THEN p + 7 ELSE 0
      e == Skip(s, b, UrlChars)
  IN IF p > Len(s) THEN <<>>
     ELSE IF b > 0 /\ e > b THEN <<SubSeq(s, p, e - 1)>> \o UrlsFrom(s, e)
     ELSE UrlsFrom(s, p + 1)
FindUrls(s) == UrlsFrom(s, 1)

\* _extract_domain: the third piece of url.split('/'), lower-cased, without
\* a leading "www."
ExtractDomain(url) ==
  LET b == (CHOOSE p \in 1..Len(url) : At(url, p, "//")) + 2
      e == Skip(url, b, CharsOf(url) \ {"/"})
      d == ToLower(SubSeq(url, b, e - 1))
  IN IF At(d, 1, "www.") THEN SubSeq(d, 5, Len(d)) ELSE d

\* ------------------------------------------------------ the spam detector
\* confidences of the spam detector are counted in tenths

\* SpamDetector.spam_domains
SpamDomains == {"bit.ly", "tinyurl.com", "short.link", "cutt.ly"}

\* pattern 4, (.)\1{10,}: one character other than a newline, eleven times
\* in a row
RepeatedCharacter(s) ==
  \E p \in 1..Len(s) :
    /\ p + 10 <= Len(s)
    /\ CharAt(s, p) # "\n"
    /\ \A k \in 1..10 : CharAt(s, p + k) = CharAt(s, p)
\* pattern 5, \b(\w+)\s+\1\s+\1: a word, white space, the same characters,
\* white space, the same characters
RepeatedWord(s) ==
  \E p \in 1..Len(s) :
    /\ WordAt(s, p) /\ Boundary(s, p)
    /\ LET e == Skip(s, p, WordChars)
           w == SubSeq(s, p, e - 1)
           q == Skip(s, e, SpaceChars)
           r == Skip(s, q + Len(w), SpaceChars)
       IN /\ q > e /\ At(s, q, w)
          /\ r > q + Len(w) /\ At(s, r, w)

\* SpamDetector.spam_patterns, in the order of the list; all but the two
\* repetition patterns ignore case
PatternMatches(k, s) ==
  LET l == ToLower(s)
  IN CASE k = 1 -> SearchThen(l, {"free", "win", "prize", "money", "cash", "earn",
                                  "bitcoin", "crypto"}, TRUE, TRUE,
                              {"click", "link", "visit"}, FALSE, FALSE)
       [] k = 2 -> SearchThen(l, {"telegram", "whatsapp", "signal"}, TRUE, FALSE,
                              {"channel", "group", "join"}, FALSE, TRUE)
       [] k = 3 -> SearchThen(l, {"investment", "trading", "forex", "binary"}, TRUE, TRUE,
                              {"profit", "guarantee"}, FALSE, FALSE)
       [] k = 4 -> RepeatedCharacter(s)
       [] k = 5 -> RepeatedWord(s)
       [] k = 6 -> SearchAny(l, {"nude", "sex", "porn", "xxx", "adult", "18+"}, TRUE, TRUE)
       [] k = 7 -> SearchThen(l, {"hack", "crack", "cheat", "bot", "auto"}, TRUE, TRUE,
                              {"free", "download"}, FALSE, FALSE)
       [] k = 8 -> SearchAny(l, {"urgent", "limited", "expire", "act now", "hurry"},
                             TRUE, TRUE)
       [] k = 9 -> SearchAny(l, {"congratulations", "winner", "selected", "chosen"},
                             TRUE, TRUE)
Patterns == 1..9

\* the number of entries of the sequence w that are in the set S
RECURSIVE CountMembers(_, _)
CountMembers(w, S) ==
  IF w = <<>> THEN 0
  ELSE (IF Head(w) \in S THEN 1 ELSE 0) + CountMembers(Tail(w), S)
Range(w) == {w[k] : k \in 1..Len(w)}

\* the words of text.lower().split(): the emoji after the body are one more
\* word
WordCount(t) == Len(Split(t.body)) + (IF t.emoji > 0 THEN 1 ELSE 0)
UniqueWords(t) ==
  Cardinality(Range(Split(ToLower(t.body)))) + (IF t.emoji > 0 THEN 1 ELSE 0)

\* the indicators _analyze_text finds in a text that is not empty
Indicators(t) ==
  [patterns |-> Cardinality({k \in Patterns : PatternMatches(k, t.body)}),
   caps |-> /\ Length(t) > 10
            /\ 10 * CountIn(t.body, CharsOf(UpperCase)) > 7 * Length(t),
   punct |-> 10 * CountIn(t.body, {"!", "?", ".", ",", ";"}) > 3 * Length(t),
   domains |-> CountMembers([k \in 1..Len(FindUrls(t.body)) |->
                               ExtractDomain(FindUrls(t.body)[k])], SpamDomains),
   repetition |-> /\ WordCount(t) > 5
                  /\ 10 * (WordCount(t) - UniqueWords(t)) > 6 * WordCount(t),
   emoji |-> 10 * t.emoji > 3 * Length(t)]

\* the weights _analyze_text adds up
Weight(ind) ==
  3 * ind.patterns
    + (IF ind.caps THEN 4 ELSE 0)
    + (IF ind.punct THEN 3 ELSE 0)
    + 5 * ind.domains
    + (IF ind.repetition THEN 4 ELSE 0)
    + (IF ind.emoji THEN 3 ELSE 0)

\* a detector whose verdict includes the cutoff
IsSpamInclusive(w) == w >= 6
\* is_spam = confidence > 0.6
IsSpam(w) == w > 6
\* a detector that returns the sum as it is
ClipNever(w) == w
\* min(confidence, 1.0)
Clip(w) == IF w < 10 THEN w ELSE 10

\* SpamResult of _analyze_text, with the indicators that were matched
AnalyzeIndicators(ind) ==
  [is_spam |-> IsSpam(Weight(ind)), confidence |-> Clip(Weight(ind)), matched |-> ind]
AnalyzeText(t) == AnalyzeIndicators(Indicators(t))

\* detect_spam: an empty text is not analysed
DetectSpam(t) == IF Length(t) = 0 THEN FALSE ELSE AnalyzeText(t).is_spam

\* ---------------------------------------------------- the security scanner
\* SecurityScanner.malicious_domains and copyright_keywords
MaliciousDomains == {"malware.com", "phishing.net", "scam.org"}
CopyrightKeywords ==
  {"copyright", "©", "copyrighted", "pirated", "cracked", "leaked", "rip", "webrip",
   "dvdrip", "bluray", "torrent", "magnet:", "download free", "full movie"}

\* n digits in a row at position p
DigitsAt(s, p, n) ==
  /\ p + n - 1 <= Len(s)
  /\ \A k \in 0..(n - 1) : CharAt(s, p + k) \in DigitChars
\* (?:\d{1,3}\.){n}\d{1,3} at position p
RECURSIVE IpAt(_, _, _)
IpAt(s, p, n) ==
  LET e == Skip(s, p, DigitChars)
  IN IF n = 0 THEN e > p
     ELSE e > p /\ e - p <= 3 /\ At(s, e, ".") /\ IpAt(s, e + 1, n - 1)

\* _is_suspicious_url
IsSuspiciousUrl(url) ==
  LET l == ToLower(url)
  IN \/ SearchAny(l, {"bit.ly", "tinyurl", "short.link"}, FALSE, FALSE)
     \/ SearchThen(l, {"download"}, FALSE, FALSE, {"free", "crack", "hack"}, FALSE, FALSE)
     \/ SearchAny(l, {"porn", "adult", "xxx", "sex"}, FALSE, FALSE)
     \/ SearchThen(l, {"bitcoin", "crypto", "investment"}, FALSE, FALSE,
                   {"scam", "fraud"}, FALSE, FALSE)
     \/ (At(url, 1, "https://") /\ IpAt(url, 9, 3))
     \/ (At(url, 1, "http://") /\ IpAt(url, 8, 3))

\* a scanner that looks at the links whatever the toggle says
ScanLinksAlways(cfg, s) ==
  \E k \in 1..Len(FindUrls(s)) :
    \/ ExtractDomain(FindUrls(s)[k]) \in MaliciousDomains
    \/ IsSuspiciousUrl(FindUrls(s)[k])
\* scan_links: nothing is looked at when block_suspicious_links is off
ScanLinks(cfg, s) ==
  IF ~cfg.block_suspicious_links THEN FALSE
  ELSE \E k \in 1..Len(FindUrls(s)) :
         \/ ExtractDomain(FindUrls(s)[k]) \in MaliciousDomains
         \/ IsSuspiciousUrl(FindUrls(s)[k])

\* the dangerous_extensions and the suspicious_keywords of the scanner
DangerousExtensions ==
  {".exe", ".bat", ".cmd", ".com", ".pif", ".scr", ".vbs", ".js",
   ".jar", ".apk", ".deb", ".rpm", ".msi", ".dmg", ".pkg",
   ".sh", ".ps1", ".psm1", ".psd1", ".ps1xml", ".psc1"}
SuspiciousKeywords ==
  {"crack", "keygen", "patch", "hack", "cheat", "trainer",
   "leaked", "dump", "breach", "password", "passwords",
   "nude", "porn", "sex", "adult", "xxx", "nsfw"}

\* the position of the last c in s, 0 when there is none
LastIndex(s, c) ==
  IF \E p \in 1..Len(s) : CharAt(s, p) = c
  THEN CHOOSE p \in 1..Len(s) :
         CharAt(s, p) = c /\ \A q \in (p + 1)..Len(s) : CharAt(s, q) # c
  ELSE 0

\* s without the slashes it ends in
RECURSIVE StripSlashes(_)
StripSlashes(s) ==
  IF s # "" /\ CharAt(s, Len(s)) = "/" THEN StripSlashes(SubSeq(s, 1, Len(s) - 1)) ELSE s

\* Path(s).name: the last component of the path
PathName(s) ==
  LET t == StripSlashes(s)
  IN SubSeq(t, LastIndex(t, "/") + 1, Len(t))

\* Path(s).suffix: the name from its last dot on, when that dot is neither
\* the first nor the last character of the name
Suffix(s) ==
  LET name == PathName(s)
      i == LastIndex(name, ".")
  IN IF 1 < i /\ i < Len(name) THEN SubSeq(name, i, Len(name)) ELSE ""

\* the fields of a document the scanner reads; a name or a mime type that
\* is missing reads as the empty string, a missing size as 0
Document(file_name, mime_type, file_size) ==
  [file_name |-> file_name, mime_type |-> mime_type, file_size |-> file_size]

\* the size above which scan_document flags a file: 100 MB, in bytes
MaxSize == 100 * 1024 * 1024
ExecutableMimeTypes == {"application/x-executable", "application/x-msdos-program"}

\* a scan_document that checks the extension only while
\* auto_delete_executables is on
ScanDocumentWhenAutoDelete(cfg, d) ==
  LET filename == ToLower(d.file_name)
  IN \/ cfg.auto_delete_executables /\ ToLower(Suffix(filename)) \in DangerousExtensions
     \/ \E w \in SuspiciousKeywords : Contains(filename, w)
     \/ cfg.copyright_detection /\ \E w \in CopyrightKeywords : Contains(filename, w)
     \/ d.file_size > MaxSize
     \/ d.mime_type \in ExecutableMimeTypes
\* scan_document: extension, suspicious keywords, copyright keywords when
\* copyright_detection is on, size, mime type
ScanDocument(cfg, d) ==
  LET filename == ToLower(d.file_name)
  IN \/ ToLower(Suffix(filename)) \in DangerousExtensions
     \/ \E w \in SuspiciousKeywords : Contains(filename, w)
     \/ cfg.copyright_detection /\ \E w \in CopyrightKeywords : Contains(filename, w)
     \/ d.file_size > MaxSize
     \/ d.mime_type \in ExecutableMimeTypes

\* the fields of an audio or a video the scanner reads; a field that is
\* missing reads as the empty string
Media(file_name, title, performer) ==
  [file_name |-> file_name, title |-> title, performer |-> performer]

\* scan_audio: nothing is looked at when copyright_detection is off
ScanAudio(cfg, a) ==
  IF ~cfg.copyright_detection THEN FALSE
  ELSE LET text_to_check == ToLower(a.file_name) \o " " \o ToLower(a.title) \o " "
                              \o ToLower(a.performer)
       IN \E w \in CopyrightKeywords : Contains(text_to_check, w)

\* the movie_patterns of scan_video
MoviePattern(s) ==
  \/ \E p \in 1..Len(s) :
       /\ DigitsAt(s, p, 4)
       /\ \E b \in {"webrip", "dvdrip", "bluray", "brrip"} : \E q \in (p + 4)..Len(s) :
            /\ At(s, q, b)
            /\ \A k \in (p + 4)..(q - 1) : CharAt(s, k) # "\n"
  \/ \E p \in 1..Len(s) :
       \/ At(s, p, "s") /\ DigitsAt(s, p + 1, 2) /\ At(s, p + 3, "e") /\ DigitsAt(s, p + 4, 2)
       \/ At(s, p, "season ") /\ DigitsAt(s, p + 7, 1)
  \/ SearchThen(s, {"1080p", "720p", "480p"}, FALSE, FALSE,
                {"x264", "h264", "xvid"}, FALSE, FALSE)
\* scan_video: nothing is looked at when copyright_detection is off
ScanVideo(cfg, v) ==
  IF ~cfg.copyright_detection THEN FALSE
  ELSE LET filename == ToLower(v.file_name)
       IN \/ \E w \in CopyrightKeywords : Contains(filename, w)
          \/ MoviePattern(filename)

\* process_message line 57: the lower-cased text holds one of these
LinkKeywords == {"http", "www", ".com", ".org", ".net"}
HasLinkKeyword(t) == \E w \in LinkKeywords : Contains(ToLower(t.body), w)

\* ------------------------------------------------------ the nsfw detector
\* A file the detector is given.  path tells whether the download gave no
\* path at all ("missing"), an animated sticker ("tgs") or anything else
\* ("static"); decodable whether Image.open reads it; height and width are
\* the size of the image, skin the number of sampled pixels the skin test
\* accepts, edge the edge density in hundredths (a multiple of five).
File(path, decodable, height, width, skin, edge) ==
  [path |-> path, decodable |-> decodable, height |-> height, width |-> width,
   skin |-> skin, edge |-> edge]

\* the pixels the two loops of _detect_skin_tones visit:
\* range(0, height, 5) x range(0, width, 5)
VisitedPixels(height, width) == ((height + 4) \div 5) * ((width + 4) \div 5)
\* sampled_pixels as _detect_skin_tones computes it
SampledPixels(height, width) == (height \div 5) * (width \div 5)

\* A confidence is a fraction num/den of hundredths.
Fraction(num, den) == [num |-> num, den |-> den]
\* a test that includes the threshold
AboveOrEqual(c, threshold) == c.num >= threshold * c.den
\* confidence > self.config.nsfw_threshold
Above(c, threshold) == c.num > threshold * c.den

\* skin_pixels / sampled_pixels if sampled_pixels > 0 else 0, as a fraction
\* of one
SkinRatio(f) ==
  IF SampledPixels(f.height, f.width) > 0
  THEN Fraction(f.skin, SampledPixels(f.height, f.width))
  ELSE Fraction(0, 1)
\* _detect_skin_tones: min(skin_ratio * 2, 1.0), as a fraction of one
DetectSkinTones(f) ==
  LET r == SkinRatio(f)
  IN IF 2 * r.num < r.den THEN Fraction(2 * r.num, r.den) ELSE Fraction(r.den, r.den)
\* _analyze_image_content: min(skin_ratio * 0.6 + edge_density * 0.4, 1.0),
\* and 0.0 for a file that cannot be opened
AnalyzeImageContent(f) ==
  LET s == DetectSkinTones(f)
      num == 60 * s.num + ((2 * f.edge) \div 5) * s.den
  IN IF f.path = "missing" \/ ~f.decodable THEN Fraction(0, 1)
     ELSE IF num < 100 * s.den THEN Fraction(num, s.den) ELSE Fraction(100 * s.den, s.den)

\* NSFWResult of detect_image
DetectImageFile(cfg, f) ==
  LET confidence == AnalyzeImageContent(f)
  IN [is_nsfw |-> Above(confidence, cfg.nsfw_threshold), confidence |-> confidence,
      model_used |-> "guardian_nsfw_v1"]
\* NSFWResult of _analyze_animated_sticker
AnalyzeAnimatedSticker(cfg, f) ==
  LET confidence == Fraction(30, 1)
  IN [is_nsfw |-> Above(confidence, cfg.nsfw_threshold), confidence |-> confidence,
      model_used |-> "animated_analyzer"]
\* NSFWResult of detect_sticker: a path that is missing has no endswith
DetectStickerFile(cfg, f) ==
  CASE f.path = "missing" ->
         [is_nsfw |-> FALSE, confidence |-> Fraction(0, 1), model_used |-> "error"]
    [] f.path = "tgs" -> AnalyzeAnimatedSticker(cfg, f)
    [] OTHER -> DetectImageFile(cfg, f)

\* ------------------------------------------------------------ the pipeline
\* A message attribute the code has not looked at is "unread": the outcome
\* cannot depend on it.  m.kind is the attachment, m.text tells whether the
\* text holds a URL-like token.

\* process_message line 45: message.photo or message.sticker or message.document
NsfwStageApplies(m) == m.kind \in {"photo", "sticker", "document_image", "document"}

\* _check_nsfw_content: a detector is reached only for a photo, a sticker or
\* a document whose mime type starts with image/
\* a check that sends every document to the detector
NsfwDetectorAppliesAnyDocument(m) == NsfwStageApplies(m)
NsfwDetectorApplies(m) == m.kind \in {"photo", "sticker", "document_image"}

\* process_message line 51: message.document or message.audio or message.video
SecurityStageApplies(m) == m.kind \in {"document_image", "document", "audio", "video"}

\* process_message line 57: the text holds one of http, www, .com, .org, .net
LinkStageApplies(m) == m.text = "url_token"

\* Where a message goes from the link stage on.  calls is the list of
\* scorers invoked so far, lv the verdict scan_links gives for the text.
LinkStage(m, calls, lv) ==
  IF LinkStageApplies(m)
  THEN IF lv
       THEN [pc |-> "delete", handler |-> "link", calls |-> Append(calls, "link"),
             kind |-> m.kind, text |-> m.text]
       ELSE [pc |-> "stat", handler |-> "processed", calls |-> Append(calls, "link"),
             kind |-> m.kind, text |-> m.text]
  ELSE [pc |-> "stat", handler |-> "processed", calls |-> calls,
        kind |-> m.kind, text |-> m.text]

\* a pipeline that runs the link scanner before it acts on a threat
SecurityStageEager(m, calls, tv, lv) ==
  IF SecurityStageApplies(m)
  THEN IF tv
       THEN [pc |-> "delete", handler |-> "threat",
             calls |-> LinkStage(m, Append(calls, "security"), lv).calls,
             kind |-> m.kind, text |-> m.text]
       ELSE LinkStage(m, Append(calls, "security"), lv)
  ELSE LinkStage(m, calls, lv)
\* from the security stage on; tv is the verdict of scan_document /
\* scan_audio / scan_video
SecurityStage(m, calls, tv, lv) ==
  IF SecurityStageApplies(m)
  THEN IF tv
       THEN [pc |-> "delete", handler |-> "threat", calls |-> Append(calls, "security"),
             kind |-> m.kind, text |-> "unread"]
       ELSE LinkStage(m, Append(calls, "security"), lv)
  ELSE LinkStage(m, calls, lv)

\* from the nsfw stage on: the detector needs the file, so the coroutine
\* suspends in message.download
NsfwStage(m, calls, tv, lv) ==
  IF NsfwStageApplies(m) /\ NsfwDetectorApplies(m)
  THEN [pc |-> "download", handler |-> "none", calls |-> calls,
        kind |-> m.kind, text |-> "unread"]
  ELSE SecurityStage(m, calls, tv, lv)

\* after the download: ok = the download and the detector did not raise,
\* nv = result.is_nsfw
AfterDownload(m, calls, ok, nv, tv, lv) ==
  IF ok
  THEN IF nv
       THEN [pc |-> "delete", handler |-> "nsfw", calls |-> Append(calls, "nsfw"),
             kind |-> m.kind, text |-> "unread"]
       ELSE SecurityStage(m, Append(calls, "nsfw"), tv, lv)
  ELSE SecurityStage(m, calls, tv, lv)

\* _check_spam then the rest of process_message: rate = the rate test,
\* sv = the verdict of spam_detector.detect_spam
SpamStage(m, rate, sv, tv, lv) ==
  IF rate
  THEN [pc |-> "delete", handler |-> "spam", calls |-> <<>>,
        kind |-> "unread", text |-> "unread"]
  ELSE IF sv
       THEN [pc |-> "delete", handler |-> "spam", calls |-> <<"spam">>,
             kind |-> "unread", text |-> "unread"]
       ELSE NsfwStage(m, <<"spam">>, tv, lv)

\* ------------------------------------------------------------ the handlers
Handlers == {"spam", "nsfw", "threat", "link", "raid"}

\* the action name each handler passes to bot.log_action
AuditAction(h) ==
  CASE h = "spam" -> "SPAM_DELETED"
    [] h = "nsfw" -> "NSFW_DELETED"
    [] h = "threat" -> "THREAT_BLOCKED"
    [] h = "link" -> "LINK_BLOCKED"
    [] h = "raid" -> "RAID_DETECTED"

\* the counter each handler passes to db_manager.increment_stat
\* handlers that all count the message as processed
StatKeyShared(h) == "messages_processed"
StatKey(h) ==
  CASE h = "spam" -> "spam_blocked"
    [] h = "nsfw" -> "nsfw_detected"
    [] h = "threat" -> "threats_blocked"
    [] h = "processed" -> "messages_processed"

\* the argument of asyncio.sleep in each handler
\* handlers that all sleep as long as the nsfw handler
TtlUniform(h) == TtlNsfw
Ttl(h) ==
  CASE h = "nsfw" -> TtlNsfw
    [] h = "threat" -> TtlThreat
    [] h = "link" -> TtlLink
    [] h = "raid" -> TtlRaid

\* the call a handler makes after the call pc has returned
NextStep(h, pc) ==
  CASE h = "spam" ->
         (CASE pc = "delete" -> "log" [] pc = "log" -> "stat" [] pc = "stat" -> "done")
    [] h \in {"nsfw", "threat"} ->
         (CASE pc = "delete" -> "notify" [] pc = "notify" -> "sleep"
            [] pc = "sleep" -> "unwarn" [] pc = "unwarn" -> "log"
            [] pc = "log" -> "stat" [] pc = "stat" -> "done")
    [] h = "link" ->
         (CASE pc = "delete" -> "notify" [] pc = "notify" -> "sleep"
            [] pc = "sleep" -> "unwarn" [] pc = "unwarn" -> "log"
            [] pc = "log" -> "done")
    [] h = "raid" ->
         (CASE pc = "notify" -> "log" [] pc = "log" -> "sleep"
            [] pc = "sleep" -> "unwarn" [] pc = "unwarn" -> "done")
    [] h = "processed" ->
         (CASE pc = "stat" -> "done")

\* a handler that repeats a call that raised
StepAfterFailureRetry(h, pc) ==
  IF pc = "unwarn" THEN NextStep(h, pc) ELSE pc
\* a handler that any raising call ends, the removal of its notification
\* included
StepAfterFailureAbort(h, pc) == "done"
\* a handler without except clauses: a raising call leaves the coroutine
\* with the exception
StepAfterFailureEscape(h, pc) == "raised"
\* a handler that a raising call leaves waiting for ever
StepAfterFailureBlock(h, pc) == "blocked"
\* where a handler continues when the call pc raised: the except clause of
\* the handler ends it, the bare except around the removal of the
\* notification lets it go on
StepAfterFailure(h, pc) ==
  IF pc = "unwarn" THEN NextStep(h, pc) ELSE "done"


\* ------------------------------------------------------------ the state
\* A task record is the frame of one event coroutine together with the
\* tally of what it has done: scorers invoked, handlers entered, calls made.
IdleTask ==
  [type |-> "idle", pc |-> "idle", chat |-> 0, user |-> 0, kind |-> "unread",
   text |-> "unread", fresh |-> FALSE, handler |-> "none", wake |-> 0,
   calls |-> <<>>, handlers |-> <<>>, deletes |-> 0, notifies |-> 0,
   removals |-> 0, audits |-> <<>>, stats |-> <<>>, failed |-> {},
   recorded |-> FALSE, positive |-> FALSE, wlen |-> 0, recent |-> 0,
   detail |-> 0, admin |-> FALSE, sent |-> 0, old |-> "unread", status |-> "unread"]

NoCommand ==
  [name |-> "none", chat |-> 0, ctype |-> "none", status |-> "none",
   argc |-> 0, numeric |-> FALSE, type |-> "none", value |-> 0,
   accepted |-> FALSE, audit |-> "none"]

\* the bot has started: start has loaded the enabled groups and no
\* enable_group call is in flight
Started == [start |-> "done", rows |-> {}, enable |-> [c \in Chats |-> "idle"]]

\* no scorer has been called yet
NoScore == [fn |-> "none", for |-> 0]

Init ==
  /\ clock = 0
  /\ tasks = [i \in Tasks |-> IdleTask]
  /\ user_message_count = [c \in Chats |-> [u \in Users |-> <<>>]]
  /\ recent_joins = [c \in Chats |-> <<>>]
  /\ enabled_groups \in {{1}, Chats}
  /\ config \in {LoadConfig(LimitsEnv(n)) : n \in Limits}
  /\ arrived = 0
  /\ msgLog = [c \in Chats |-> [u \in Users |-> <<>>]]
  /\ joinLog = [c \in Chats |-> <<>>]
  /\ breachAlerts = [c \in Chats |-> 0]
  /\ command = NoCommand
  /\ scored = NoScore
  /\ groups_table = enabled_groups
  /\ boot = Started

\* coroutine slot i can take the next event
Free(i) ==
  /\ arrived < MaxEvents
  /\ tasks[i].pc \in {"idle", "done"}

\* slot i is the first free one
FirstFree(i) == \A j \in Tasks : j < i => tasks[j].pc \notin {"idle", "done"}

\* the record of task t once call pc of handler h has returned and the
\* handler has issued its next call
Advance(t, h, pc) ==
  LET next == NextStep(h, pc) IN
  [t EXCEPT !.pc = next,
            !.wake = IF next = "sleep" THEN clock + Ttl(h) ELSE 0,
            !.detail = IF next = "log" /\ h = "raid"
                       THEN Len(recent_joins[t.chat]) ELSE @]

\* the record of task t once call pc of handler h has raised
Fail(t, h, pc) ==
  [t EXCEPT !.pc = StepAfterFailure(h, pc), !.failed = @ \cup {pc}]

\* the record of task t entering the pipeline outcome r
Enter(t, r) ==
  [t EXCEPT !.pc = r.pc, !.handler = r.handler, !.calls = r.calls,
            !.kind = r.kind, !.text = r.text,
            !.handlers = IF r.handler \in Handlers THEN Append(@, r.handler) ELSE @]

\* bot.is_admin: res is the status get_chat_member reports, "error" when
\* the call raised
\* a privilege check that lets nobody through
IsPrivilegedNever(res) == FALSE
\* a privilege check that takes a raised get_chat_member for an administrator
IsPrivilegedOnError(res) == res \in {"creator", "administrator", "error"}
IsPrivileged(res) == res \in {"creator", "administrator"}

\* windows kept per user, whatever the chat
RecordMessageByUser(counts, c, u, w) == [g \in Chats |-> [counts[g] EXCEPT ![u] = w]]
\* _update_user_activity: self.user_message_count[chat_id][user_id] is the
\* only entry assigned
RecordMessage(counts, c, u, w) == [counts EXCEPT ![c][u] = w]
\* _track_join: self.recent_joins[chat_id] is the only entry assigned
RecordJoin(joins, c, w) == [joins EXCEPT ![c] = w]

\* process_message up to the privilege check
StartMessage(i, c, u) ==
  /\ Free(i)
  /\ arrived' = arrived + 1
  /\ tasks' = [tasks EXCEPT ![i] =
       [IdleTask EXCEPT !.type = "message", !.chat = c, !.user = u,
                        !.pc = IF c \in enabled_groups THEN "is_admin" ELSE "done"]]
  /\ UNCHANGED <<clock, user_message_count, recent_joins, enabled_groups,
                 config, command, msgLog, joinLog, breachAlerts, scored,
                 groups_table, boot>>

\* get_chat_member returns (or raises: is_admin then answers False); a
\* non-admin message is recorded, rate-checked and scored up to the next
\* suspension.  k and x are the attachment and the text of the message.
AdminReturnsThen(i, res, sv, k, x, tv, lv) ==
  /\ tasks[i].pc = "is_admin"
  /\ LET t == tasks[i]
         c == t.chat
         u == t.user
         w == UpdatedWindow(user_message_count[c][u], clock, MsgHorizon)
         log == Append(msgLog[c][u], clock)
         rate == RateExceeded(w, config.max_messages_per_minute)
         r == SpamStage([kind |-> k, text |-> x], rate, sv, tv, lv)
         admin == res \in {"creator", "administrator"}
     IN IF IsPrivileged(res)
        THEN /\ tasks' = [tasks EXCEPT ![i].pc = "done", ![i].admin = admin]
             /\ UNCHANGED <<user_message_count, msgLog>>
        ELSE /\ user_message_count' = RecordMessage(user_message_count, c, u, w)
             /\ msgLog' = [msgLog EXCEPT ![c][u] = log]
             /\ tasks' = [tasks EXCEPT ![i] =
                  [Enter(t, r) EXCEPT !.admin = admin,
                                      !.recorded = TRUE, !.positive = rate,
                                      !.wlen = Len(w),
                                      !.recent = CountRecent(log, clock, MsgHorizon)]]
  /\ UNCHANGED <<clock, recent_joins, enabled_groups, config, command, arrived, joinLog,
                 breachAlerts, groups_table, boot>>
AdminReturns(i, res, sv, k, x, tv, lv) ==
  /\ AdminReturnsThen(i, res, sv, k, x, tv, lv)
  /\ UNCHANGED scored

\* a message of a member: attachment kind, text, and the metadata of the
\* audio or video it carries
Content(kind, text, media) == [kind |-> kind, text |-> text, media |-> media]
NoMedia == Media("", "", "")

\* get_chat_member answers that the sender is a member; then the message m
\* goes through _check_spam and the stages after it with the verdicts the
\* detector and the scanner give for its content
ScoreMessage(i, m) ==
  LET sv == DetectSpam(m.text)
      x == IF Length(m.text) > 0 /\ HasLinkKeyword(m.text) THEN "url_token" ELSE "plain"
      tv == CASE m.kind = "document" -> ScanDocument(config, m.media)
              [] m.kind = "audio" -> ScanAudio(config, m.media)
              [] m.kind = "video" -> ScanVideo(config, m.media)
              [] OTHER -> FALSE
      lv == ScanLinks(config, m.text.body)
  IN /\ AdminReturnsThen(i, "member", sv, m.kind, x, tv, lv)
     /\ scored' = [fn |-> "message", for |-> arrived, content |-> m,
                   spam |-> AnalyzeText(m.text), threat |-> tv, links |-> lv]

\* message.download returns or raises; then the detector and the later stages
DownloadReturns(i, ok, nv, x, tv, lv) ==
  /\ tasks[i].pc = "download"
  /\ LET t == tasks[i]
         r == AfterDownload([kind |-> t.kind, text |-> x], t.calls, ok, nv, tv, lv)
     IN tasks' = [tasks EXCEPT ![i] =
          [Enter(t, r) EXCEPT !.failed = IF ok THEN @ ELSE @ \cup {"download"}]]
  /\ UNCHANGED <<clock, user_message_count, recent_joins, enabled_groups,
                 config, command, arrived, msgLog, joinLog, breachAlerts, scored,
                 groups_table, boot>>

\* message.download returns or raises; then detect_image on the file, which
\* may not decode (dec) and else has confidence conf; then the later stages
DetectImage(i, dl, dec, conf, x, tv, lv) ==
  /\ tasks[i].pc = "download"
  /\ LET t == tasks[i]
         nv == NsfwVerdict(dec, conf, config.nsfw_threshold)
         r == AfterDownload([kind |-> t.kind, text |-> x], t.calls, dl, nv, tv, lv)
     IN tasks' = [tasks EXCEPT ![i] =
          [Enter(t, r) EXCEPT !.failed = IF ~dl THEN @ \cup {"download"}
                                         ELSE IF ~dec THEN @ \cup {"decode"} ELSE @]]
  /\ UNCHANGED <<clock, user_message_count, recent_joins, enabled_groups,
                 config, command, arrived, msgLog, joinLog, breachAlerts, scored,
                 groups_table, boot>>

\* admin_required: the sender is an admin of the chat and the chat is a
\* group or a supergroup
\* a decorator that does not look at the chat type
GateAnyChat(ctype, res) == IsPrivileged(res)
Gate(ctype, res) == IsPrivileged(res) /\ ctype \in {"group", "supergroup"}

\* /set_threshold in chat c of type ctype from a sender of status res, with
\* arguments a: admin_required, then set_threshold_command
SetThreshold(c, ctype, res, a) ==
  LET accepted == Gate(ctype, res) /\ WellFormed(a) /\ InRange(a)
  IN /\ command' = [name |-> "set_threshold", chat |-> c, ctype |-> ctype,
                     status |-> res, argc |-> a.argc, numeric |-> a.numeric,
                     type |-> a.type, value |-> a.value, accepted |-> accepted,
                     audit |-> IF accepted THEN "THRESHOLD_CHANGED" ELSE "none"]
     /\ config' = IF accepted THEN WithThreshold(config, a) ELSE config
     /\ UNCHANGED <<clock, tasks, user_message_count, recent_joins,
                    enabled_groups, arrived, msgLog, joinLog, breachAlerts, scored,
                 groups_table, boot>>

\* an /enable that skips the is_enabled test and enables and logs again
EnableCommandAlwaysLogs(c, ctype, res) ==
  LET accepted == Gate(ctype, res)
  IN /\ command' = [NoCommand EXCEPT !.name = "enable", !.chat = c, !.ctype = ctype,
                       !.status = res, !.accepted = accepted,
                       !.audit = IF accepted THEN "GROUP_ENABLED" ELSE "none"]
     /\ enabled_groups' = IF accepted THEN enabled_groups \cup {c} ELSE enabled_groups
     /\ groups_table' = IF accepted THEN groups_table \cup {c} ELSE groups_table
     /\ UNCHANGED <<clock, tasks, user_message_count, recent_joins,
                    config, arrived, msgLog, joinLog, breachAlerts, scored, boot>>

\* /enable in chat c: admin_required, then enable_command
EnableCommand(c, ctype, res) ==
  LET accepted == Gate(ctype, res) /\ c \notin enabled_groups
  IN /\ command' = [NoCommand EXCEPT !.name = "enable", !.chat = c, !.ctype = ctype,
                       !.status = res, !.accepted = accepted,
                       !.audit = IF accepted THEN "GROUP_ENABLED" ELSE "none"]
     /\ enabled_groups' = IF accepted THEN enabled_groups \cup {c} ELSE enabled_groups
     /\ groups_table' = IF accepted THEN groups_table \cup {c} ELSE groups_table
     /\ UNCHANGED <<clock, tasks, user_message_count, recent_joins,
                    config, arrived, msgLog, joinLog, breachAlerts, scored, boot>>

\* /disable in chat c: admin_required, then disable_command
DisableCommand(c, ctype, res) ==
  LET accepted == Gate(ctype, res) /\ c \in enabled_groups
  IN /\ command' = [NoCommand EXCEPT !.name = "disable", !.chat = c, !.ctype = ctype,
                       !.status = res, !.accepted = accepted,
                       !.audit = IF accepted THEN "GROUP_DISABLED" ELSE "none"]
     /\ enabled_groups' = IF accepted THEN enabled_groups \ {c} ELSE enabled_groups
     /\ groups_table' = IF accepted THEN groups_table \ {c} ELSE groups_table
     /\ UNCHANGED <<clock, tasks, user_message_count, recent_joins,
                    config, arrived, msgLog, joinLog, breachAlerts, scored, boot>>

\* /status in chat c: admin_required, then status_command, which only reads
StatusCommand(c, ctype, res) ==
  /\ command' = [NoCommand EXCEPT !.name = "status", !.chat = c, !.ctype = ctype,
                    !.status = res, !.accepted = Gate(ctype, res)]
  /\ UNCHANGED <<clock, tasks, user_message_count, recent_joins, enabled_groups,
                 config, arrived, msgLog, joinLog, breachAlerts, scored,
                 groups_table, boot>>

\* message.delete() returns or raises
Delete(i, ok) ==
  /\ tasks[i].pc = "delete"
  /\ LET t == [tasks[i] EXCEPT !.deletes = @ + 1] IN
       tasks' = [tasks EXCEPT ![i] =
         IF ok THEN Advance(t, t.handler, "delete") ELSE Fail(t, t.handler, "delete")]
  /\ UNCHANGED <<clock, user_message_count, recent_joins, enabled_groups,
                 config, command, arrived, msgLog, joinLog, breachAlerts, scored,
                 groups_table, boot>>

\* message.reply_text / app.send_message returns or raises
Notify(i, ok) ==
  /\ tasks[i].pc = "notify"
  /\ LET t == tasks[i] IN
       tasks' = [tasks EXCEPT ![i] =
         IF ok THEN Advance([t EXCEPT !.notifies = @ + 1, !.sent = clock],
                            t.handler, "notify")
         ELSE Fail(t, t.handler, "notify")]
  /\ UNCHANGED <<clock, user_message_count, recent_joins, enabled_groups,
                 config, command, arrived, msgLog, joinLog, breachAlerts, scored,
                 groups_table, boot>>

\* asyncio.sleep returns
Wake(i) ==
  /\ tasks[i].pc = "sleep"
  /\ clock >= tasks[i].wake
  /\ tasks' = [tasks EXCEPT ![i] = Advance(@, @.handler, "sleep")]
  /\ UNCHANGED <<clock, user_message_count, recent_joins, enabled_groups,
                 config, command, arrived, msgLog, joinLog, breachAlerts, scored,
                 groups_table, boot>>

\* the event loop has nothing to run before the timer of task i is due: time
\* passes until then
Elapse(i) ==
  /\ tasks[i].pc = "sleep"
  /\ clock < tasks[i].wake
  /\ clock' = tasks[i].wake
  /\ UNCHANGED <<tasks, user_message_count, recent_joins, enabled_groups,
                 config, command, arrived, msgLog, joinLog, breachAlerts, scored,
                 groups_table, boot>>

\* warning_msg.delete() / alert_msg.delete() returns or raises
Unwarn(i, ok) ==
  /\ tasks[i].pc = "unwarn"
  /\ LET t == tasks[i] IN
       tasks' = [tasks EXCEPT ![i] =
         IF ok THEN Advance([t EXCEPT !.removals = @ + 1], t.handler, "unwarn")
         ELSE Fail(t, t.handler, "unwarn")]
  /\ UNCHANGED <<clock, user_message_count, recent_joins, enabled_groups,
                 config, command, arrived, msgLog, joinLog, breachAlerts, scored,
                 groups_table, boot>>

\* bot.log_action returns; ok = its database write and its admin-chat
\* message did not raise (it swallows both failures itself)
Log(i, ok) ==
  /\ tasks[i].pc = "log"
  /\ LET t == tasks[i] IN
       tasks' = [tasks EXCEPT ![i] =
         Advance([t EXCEPT !.audits = Append(@, AuditAction(t.handler)),
                           !.failed = IF ok THEN @ ELSE @ \cup {"log"}],
                 t.handler, "log")]
  /\ UNCHANGED <<clock, user_message_count, recent_joins, enabled_groups,
                 config, command, arrived, msgLog, joinLog, breachAlerts, scored,
                 groups_table, boot>>

\* db_manager.increment_stat returns; ok = its database write did not raise
\* (it swallows the failure itself)
Stat(i, ok) ==
  /\ tasks[i].pc = "stat"
  /\ LET t == tasks[i] IN
       tasks' = [tasks EXCEPT ![i] =
         Advance([t EXCEPT !.stats = Append(@, StatKey(t.handler)),
                           !.failed = IF ok THEN @ ELSE @ \cup {"stat"}],
                 t.handler, "stat")]
  /\ UNCHANGED <<clock, user_message_count, recent_joins, enabled_groups,
                 config, command, arrived, msgLog, joinLog, breachAlerts, scored,
                 groups_table, boot>>

\* handle_member_update up to the raid alert: gate, _track_join, _check_raid
JoinArrives(i, c, fresh) ==
  /\ Free(i)
  /\ arrived' = arrived + 1
  /\ LET w == UpdatedWindow(recent_joins[c], clock, JoinHorizon)
         log == Append(joinLog[c], clock)
         raid == RaidDetected(w, config.raid_threshold)
         t == [IdleTask EXCEPT !.type = "join", !.chat = c, !.fresh = fresh]
     IN IF c \in enabled_groups /\ fresh
        THEN /\ recent_joins' = RecordJoin(recent_joins, c, w)
             /\ joinLog' = [joinLog EXCEPT ![c] = log]
             /\ breachAlerts' = [breachAlerts EXCEPT ![c] = IF raid THEN @ + 1 ELSE 0]
             /\ tasks' = [tasks EXCEPT ![i] =
                  [t EXCEPT !.recorded = TRUE, !.positive = raid, !.wlen = Len(w),
                            !.recent = CountRecent(log, clock, JoinHorizon),
                            !.pc = IF raid THEN "notify" ELSE "done",
                            !.handler = IF raid THEN "raid" ELSE "none",
                            !.handlers = IF raid THEN <<"raid">> ELSE <<>>]]
        ELSE /\ tasks' = [tasks EXCEPT ![i] = [t EXCEPT !.pc = "done"]]
             /\ UNCHANGED <<recent_joins, joinLog, breachAlerts>>
  /\ UNCHANGED <<clock, user_message_count, enabled_groups, config, command, msgLog, scored,
                 groups_table, boot>>

\* what old_chat_member and new_chat_member.status of a member update may
\* read; "none" is an update without an old member record
OldMembers == {"none", "left"}
NewStatuses == {"member", "administrator", "left"}

\* a test that takes every update to the status member for a join
IsNewJoinAnyHistory(old, status) == status = "member"
\* handle_member_update: old_chat_member is None and the new status is
\* "member"
IsNewJoin(old, status) == old = "none" /\ status = "member"

\* handle_member_update for an update of group c with the old member record
\* old and the new status status
MemberUpdate(i, c, old, status) ==
  /\ Free(i)
  /\ arrived' = arrived + 1
  /\ LET w == UpdatedWindow(recent_joins[c], clock, JoinHorizon)
         log == Append(joinLog[c], clock)
         raid == RaidDetected(w, config.raid_threshold)
         fresh == IsNewJoin(old, status)
         t == [IdleTask EXCEPT !.type = "join", !.chat = c, !.fresh = fresh,
                               !.old = IF c \in enabled_groups THEN old ELSE "unread",
                               !.status = IF c \in enabled_groups /\ old = "none"
                                          THEN status ELSE "unread"]
     IN IF c \in enabled_groups /\ fresh
        THEN /\ recent_joins' = RecordJoin(recent_joins, c, w)
             /\ joinLog' = [joinLog EXCEPT ![c] = log]
             /\ breachAlerts' = [breachAlerts EXCEPT ![c] = IF raid THEN @ + 1 ELSE 0]
             /\ tasks' = [tasks EXCEPT ![i] =
                  [t EXCEPT !.recorded = TRUE, !.positive = raid, !.wlen = Len(w),
                            !.recent = CountRecent(log, clock, JoinHorizon),
                            !.pc = IF raid THEN "notify" ELSE "done",
                            !.handler = IF raid THEN "raid" ELSE "none",
                            !.handlers = IF raid THEN <<"raid">> ELSE <<>>]]
        ELSE /\ tasks' = [tasks EXCEPT ![i] = [t EXCEPT !.pc = "done"]]
             /\ UNCHANGED <<recent_joins, joinLog, breachAlerts>>
  /\ UNCHANGED <<clock, user_message_count, enabled_groups, config, command, msgLog, scored,
                 groups_table, boot>>

\* time passes: datetime.now() reads r from now on
Tick(r) ==
  /\ r > clock
  /\ clock' = r
  /\ UNCHANGED <<tasks, user_message_count, recent_joins, enabled_groups,
                 config, command, arrived, msgLog, joinLog, breachAlerts, scored,
                 groups_table, boot>>

\* the wall clock datetime.now() reads is set back
ClockStepBack(r) ==
  /\ r < clock
  /\ clock' = r
  /\ UNCHANGED <<tasks, user_message_count, recent_joins, enabled_groups,
                 config, command, arrived, msgLog, joinLog, breachAlerts, scored,
                 groups_table, boot>>

\* the steps every handler is made of
HandlerStep ==
  \/ \E i \in Tasks, ok \in BOOLEAN : Delete(i, ok)
  \/ \E i \in Tasks, ok \in BOOLEAN : Notify(i, ok)
  \/ \E i \in Tasks : Wake(i)
  \/ \E i \in Tasks, ok \in BOOLEAN : Unwarn(i, ok)
  \/ \E i \in Tasks : Log(i, TRUE)
  \/ \E i \in Tasks : Stat(i, TRUE)

\* The classification pipeline: messages of every kind from one sender per
\* group in slot 1, interleaved with the joins of slot 2.
Next ==
  \/ \E c \in Chats : StartMessage(1, c, 1)
  \/ \E c \in Chats : JoinArrives(2, c, TRUE)
  \/ \E i \in Tasks, res \in {"administrator", "member", "error"}, k \in Kinds,
        x \in Texts, sv, tv, lv \in BOOLEAN :
       AdminReturns(i, res, sv, k, x, tv, lv)
  \/ \E i \in Tasks, x \in Texts, ok, nv, tv, lv \in BOOLEAN :
       DownloadReturns(i, ok, nv, x, tv, lv)
  \/ HandlerStep
  \/ Tick(MsgHorizon)

Spec == Init /\ [][Next]_vars

\* The activity windows: joins and plain text messages whose content no
\* scorer flags, under a clock that only moves forward.
NextWindows ==
  \/ \E i \in Tasks, c \in Chats, u \in Users : FirstFree(i) /\ StartMessage(i, c, u)
  \/ \E i \in Tasks, res \in {"administrator", "member"} :
       AdminReturns(i, res, FALSE, "none", "plain", FALSE, FALSE)
  \/ \E i \in Tasks, c \in Chats, fresh \in BOOLEAN :
       FirstFree(i) /\ JoinArrives(i, c, fresh)
  \/ HandlerStep
  \/ \E r \in Readings : Tick(r)

SpecWindows == Init /\ [][NextWindows]_vars

\* the same under a wall clock that may also be set back
NextWall == NextWindows \/ \E r \in Readings : ClockStepBack(r)

SpecWall == Init /\ [][NextWall]_vars

\* The self-expiring notifications: messages and joins of one group, every
\* join a raid, under an event loop that lets every timer run out and every
\* call return.
InitTtl ==
  /\ Init
  /\ enabled_groups = Chats
  /\ config.raid_threshold = 1

NextTtl ==
  \/ StartMessage(1, 1, 1)
  \/ JoinArrives(2, 1, TRUE)
  \/ \E i \in Tasks, k \in Kinds, x \in Texts, sv, tv, lv \in BOOLEAN :
       AdminReturns(i, "member", sv, k, x, tv, lv)
  \/ \E i \in Tasks, x \in Texts, ok, nv, tv, lv \in BOOLEAN :
       DownloadReturns(i, ok, nv, x, tv, lv)
  \/ HandlerStep
  \/ \E i \in Tasks : Elapse(i)

SpecTtl ==
  /\ InitTtl
  /\ [][NextTtl]_vars
  /\ \A i \in Tasks :
       /\ WF_vars(Elapse(i))
       /\ WF_vars(Wake(i))
       /\ WF_vars(Log(i, TRUE))
       /\ WF_vars(\E ok \in BOOLEAN : Unwarn(i, ok))

\* Failing collaborators: as above, with a sender that may be an admin, a
\* privilege check that may raise and a database that may fail.
NextFailures ==
  \/ StartMessage(1, 1, 1)
  \/ JoinArrives(2, 1, TRUE)
  \/ \E i \in Tasks, res \in {"administrator", "member", "error"}, k \in Kinds,
        x \in Texts, sv, tv, lv \in BOOLEAN :
       AdminReturns(i, res, sv, k, x, tv, lv)
  \/ \E i \in Tasks, x \in Texts, ok, nv, tv, lv \in BOOLEAN :
       DownloadReturns(i, ok, nv, x, tv, lv)
  \/ HandlerStep
  \/ \E i \in Tasks : Log(i, FALSE)
  \/ \E i \in Tasks : Stat(i, FALSE)
  \/ \E i \in Tasks : Elapse(i)

SpecFailures == InitTtl /\ [][NextFailures]_vars

\* the call task i is suspended in returns or raises
Returns(i) ==
  \/ \E res \in {"administrator", "member", "error"}, k \in Kinds,
        x \in Texts, sv, tv, lv \in BOOLEAN : AdminReturns(i, res, sv, k, x, tv, lv)
  \/ \E x \in Texts, ok, nv, tv, lv \in BOOLEAN : DownloadReturns(i, ok, nv, x, tv, lv)
  \/ \E ok \in BOOLEAN : Delete(i, ok)
  \/ \E ok \in BOOLEAN : Notify(i, ok)
  \/ Wake(i)
  \/ \E ok \in BOOLEAN : Unwarn(i, ok)
  \/ \E ok \in BOOLEAN : Log(i, ok)
  \/ \E ok \in BOOLEAN : Stat(i, ok)

\* Termination: the messages of one group, each collaborator call returning
\* or raising, under an event loop in which every call returns or raises in
\* finite time and every timer runs out.
NextResolve ==
  \/ StartMessage(1, 1, 1)
  \/ \E i \in Tasks : Returns(i)
  \/ \E i \in Tasks : Elapse(i)

SpecResolve ==
  /\ InitTtl
  /\ [][NextResolve]_vars
  /\ \A i \in Tasks : WF_vars(Returns(i)) /\ WF_vars(Elapse(i))

\* The member updates: updates of every kind in groups that are enabled or
\* not, under a clock that only moves forward.
NextJoins ==
  \/ \E i \in Tasks, c \in Chats, old \in OldMembers, status \in NewStatuses :
       FirstFree(i) /\ MemberUpdate(i, c, old, status)
  \/ \E i \in Tasks, ok \in BOOLEAN : Notify(i, ok)
  \/ \E i \in Tasks : Wake(i)
  \/ \E i \in Tasks, ok \in BOOLEAN : Unwarn(i, ok)
  \/ \E i \in Tasks : Log(i, TRUE)
  \/ \E r \in Readings : Tick(r)

SpecJoins == Init /\ [][NextJoins]_vars

\* The gate: text messages and joins of every group go through the pipeline
\* while admins enable and disable the groups.
NextGate ==
  \/ \E c \in Chats : StartMessage(1, c, 1)
  \/ \E c \in Chats : JoinArrives(2, c, TRUE)
  \/ \E i \in Tasks, sv \in BOOLEAN :
       AdminReturns(i, "member", sv, "none", "plain", FALSE, FALSE)
  \/ HandlerStep
  \/ \E i \in Tasks : Elapse(i)
  \/ \E c \in Chats : EnableCommand(c, "supergroup", "administrator")
  \/ \E c \in Chats : DisableCommand(c, "supergroup", "administrator")

SpecGate == Init /\ [][NextGate]_vars

\* The configuration: the bot starts in any of the environments, admins
\* change thresholds, and text and photo messages go through the pipeline.
InitConfig ==
  /\ clock = 0
  /\ tasks = [i \in Tasks |-> IdleTask]
  /\ user_message_count = [c \in Chats |-> [u \in Users |-> <<>>]]
  /\ recent_joins = [c \in Chats |-> <<>>]
  /\ enabled_groups = Chats
  /\ config \in {LoadConfig(env) : env \in Environments}
  /\ arrived = 0
  /\ msgLog = [c \in Chats |-> [u \in Users |-> <<>>]]
  /\ joinLog = [c \in Chats |-> <<>>]
  /\ breachAlerts = [c \in Chats |-> 0]
  /\ command = NoCommand
  /\ scored = NoScore
  /\ groups_table = enabled_groups
  /\ boot = Started

NextConfig ==
  \/ StartMessage(1, 1, 1)
  \/ \E i \in Tasks, k \in {"none", "photo"} :
       AdminReturns(i, "member", FALSE, k, "plain", FALSE, FALSE)
  \/ \E i \in Tasks, dl, dec \in BOOLEAN, conf \in Confidences :
       DetectImage(i, dl, dec, conf, "plain", FALSE, FALSE)
  \/ HandlerStep
  \/ \E i \in Tasks : Elapse(i)
  \/ \E c \in Chats, res \in {"administrator", "member"},
        a \in {b \in Arguments : WellFormed(b)} :
       SetThreshold(c, "supergroup", res, a)

SpecConfig == InitConfig /\ [][NextConfig]_vars

\* The admin commands: the bot starts with any set of groups enabled and in
\* the default configuration, and receives commands from any sender in any
\* kind of chat.
InitCommands ==
  /\ clock = 0
  /\ tasks = [i \in Tasks |-> IdleTask]
  /\ user_message_count = [c \in Chats |-> [u \in Users |-> <<>>]]
  /\ recent_joins = [c \in Chats |-> <<>>]
  /\ enabled_groups \in SUBSET Chats
  /\ config = DefaultConfig
  /\ arrived = 0
  /\ msgLog = [c \in Chats |-> [u \in Users |-> <<>>]]
  /\ joinLog = [c \in Chats |-> <<>>]
  /\ breachAlerts = [c \in Chats |-> 0]
  /\ command = NoCommand
  /\ scored = NoScore
  /\ groups_table = enabled_groups
  /\ boot = Started

NextCommands ==
  \/ \E c \in Chats, ctype \in ChatTypes, res \in Statuses, a \in Arguments :
       SetThreshold(c, ctype, res, a)
  \/ \E c \in Chats, ctype \in ChatTypes, res \in Statuses : EnableCommand(c, ctype, res)
  \/ \E c \in Chats, ctype \in ChatTypes, res \in Statuses : DisableCommand(c, ctype, res)
  \/ \E c \in Chats, ctype \in ChatTypes, res \in Statuses : StatusCommand(c, ctype, res)

SpecCommands == InitCommands /\ [][NextCommands]_vars

\* The scorers: the bot starts with the two scanner toggles on or off and a
\* rate limit of one message per minute; members send text, audio and video
\* messages, and an admin sets the spam threshold.
ScannerEnvironments ==
  {[NSFW_THRESHOLD |-> Unset, SPAM_THRESHOLD |-> Unset,
    MAX_MESSAGES_PER_MINUTE |-> Num(1), RAID_THRESHOLD |-> Unset,
    BLOCK_SUSPICIOUS_LINKS |-> b, COPYRIGHT_DETECTION |-> c,
    AUTO_DELETE_EXECUTABLES |-> Unset] :
     b \in {Unset, Word("off")}, c \in {Word("yes"), Word("false")}}

\* the messages members send
Contents ==
  {Content("none", Text("hello world", 0), NoMedia),
   Content("none", Text("urgent winner", 0), NoMedia),
   Content("none", Text("WIN FREE BITCOIN NOW!!! http://bit.ly/x", 0), NoMedia),
   Content("none", Text("WIN FREE BITCOIN NOW!!! CLICK http://bit.ly/x", 0), NoMedia),
   Content("none", Text("urgent winner http://bit.ly/x", 0), NoMedia),
   Content("none", Text("AAAAAAAAAAAA", 0), NoMedia),
   Content("none", Text("what?!?!", 0), NoMedia),
   Content("none", Text("hi ", 3), NoMedia),
   Content("none", Text("see http://www.Malware.com/a", 0), NoMedia),
   Content("none", Text("visit www.example.com", 0), NoMedia),
   Content("audio", Text("", 0), Media("song.mp3", "Full Movie OST", "")),
   Content("audio", Text("", 0), Media("song.mp3", "", "")),
   Content("video", Text("", 0), Media("show s01e02.mkv", "", "")),
   Content("video", Text("", 0), Media("holiday.mp4", "", ""))}

InitScorers ==
  /\ clock = 0
  /\ tasks = [i \in Tasks |-> IdleTask]
  /\ user_message_count = [c \in Chats |-> [u \in Users |-> <<>>]]
  /\ recent_joins = [c \in Chats |-> <<>>]
  /\ enabled_groups = Chats
  /\ config \in {LoadConfig(env) : env \in ScannerEnvironments}
  /\ arrived = 0
  /\ msgLog = [c \in Chats |-> [u \in Users |-> <<>>]]
  /\ joinLog = [c \in Chats |-> <<>>]
  /\ breachAlerts = [c \in Chats |-> 0]
  /\ command = NoCommand
  /\ scored = NoScore
  /\ groups_table = enabled_groups
  /\ boot = Started

NextScorers ==
  \/ StartMessage(1, 1, 1)
  \/ \E m \in Contents : ScoreMessage(1, m)
  \/ HandlerStep
  \/ Elapse(1)
  \/ SetThreshold(1, "supergroup", "administrator", Args("spam", 100))

SpecScorers == InitScorers /\ [][NextScorers]_vars

\* The nsfw detector: the bot starts with NSFW_THRESHOLD at one of several
\* values and the detector is handed files.
ThresholdEnvironments ==
  {[NSFW_THRESHOLD |-> t, SPAM_THRESHOLD |-> Unset,
    MAX_MESSAGES_PER_MINUTE |-> Unset, RAID_THRESHOLD |-> Unset,
    BLOCK_SUSPICIOUS_LINKS |-> Unset, COPYRIGHT_DETECTION |-> Unset,
    AUTO_DELETE_EXECUTABLES |-> Unset] :
     t \in {Unset, Num(0), Num(30), Num(100), Num(-10)}}

Sizes == {1, 5, 6, 10}
Edges == {0, 100}
\* the files: no path, an animated sticker, a file that is no image, and
\* images of every size with none, one or four of the visited pixels
\* skin-coloured
Files ==
  {File("missing", FALSE, 1, 1, 0, 0), File("tgs", FALSE, 1, 1, 0, 0),
   File("static", FALSE, 1, 1, 0, 0)}
    \cup {f \in {File("static", TRUE, h, w, sk, e) :
                   h \in Sizes, w \in Sizes, sk \in {0, 1, 4}, e \in Edges} :
            f.skin <= VisitedPixels(f.height, f.width)}

InitNsfw ==
  /\ clock = 0
  /\ tasks = [i \in Tasks |-> IdleTask]
  /\ user_message_count = [c \in Chats |-> [u \in Users |-> <<>>]]
  /\ recent_joins = [c \in Chats |-> <<>>]
  /\ enabled_groups = Chats
  /\ config \in {LoadConfig(env) : env \in ThresholdEnvironments}
  /\ arrived = 0
  /\ msgLog = [c \in Chats |-> [u \in Users |-> <<>>]]
  /\ joinLog = [c \in Chats |-> <<>>]
  /\ breachAlerts = [c \in Chats |-> 0]
  /\ command = NoCommand
  /\ scored = NoScore
  /\ groups_table = enabled_groups
  /\ boot = Started

\* detect_image is called with the file f
DetectImageCall(f) ==
  /\ scored' = [fn |-> "detect_image", for |-> arrived, file |-> f,
                sampled_pixels |-> SampledPixels(f.height, f.width),
                skin_ratio |-> SkinRatio(f),
                result |-> DetectImageFile(config, f)]
  /\ UNCHANGED <<clock, tasks, user_message_count, recent_joins, enabled_groups,
                 config, arrived, msgLog, joinLog, breachAlerts, command,
                 groups_table, boot>>

\* detect_sticker is called with the file f
DetectStickerCall(f) ==
  /\ scored' = [fn |-> "detect_sticker", for |-> arrived, file |-> f,
                sampled_pixels |-> SampledPixels(f.height, f.width),
                skin_ratio |-> SkinRatio(f),
                result |-> DetectStickerFile(config, f)]
  /\ UNCHANGED <<clock, tasks, user_message_count, recent_joins, enabled_groups,
                 config, arrived, msgLog, joinLog, breachAlerts, command,
                 groups_table, boot>>

NextNsfw ==
  \/ \E f \in Files : DetectImageCall(f)
  \/ \E f \in Files : DetectStickerCall(f)

SpecNsfw == InitNsfw /\ [][NextNsfw]_vars

\* ============================================================ properties
Last(w) == w[Len(w)]

NonDecreasing(w) == \A k \in 1..(Len(w) - 1) : w[k] <= w[k + 1]

MessageHandlers == {"spam", "nsfw", "threat", "link"}

\* position of a scorer in the stage order
StageRank(sc) ==
  CASE sc = "spam" -> 1 [] sc = "nsfw" -> 2 [] sc = "security" -> 3 [] sc = "link" -> 4

\* the scorer whose positive verdict leads to handler h
ScorerOf(h) ==
  CASE h = "spam" -> "spam" [] h = "nsfw" -> "nsfw" [] h = "threat" -> "security"
    [] h = "link" -> "link"

\* number of joins at the end of a join history that each found at least
\* th joins (itself included) younger than the join horizon
JoinsSeenAt(log, k) == Cardinality({j \in 1..k : log[k] - log[j] < JoinHorizon})

RECURSIVE TrailingBreach(_, _, _)
TrailingBreach(log, k, th) ==
  IF k = 0 THEN 0
  ELSE IF JoinsSeenAt(log, k) >= th THEN 1 + TrailingBreach(log, k - 1, th)
       ELSE 0

\* C1: a message event enters at most one of the spam / nsfw / security /
\* link handlers and its delete call is made at most once, whatever other
\* events are processed in between.
ExactlyOneAction ==
  \A i \in Tasks : tasks[i].type = "message" =>
    /\ Len(tasks[i].handlers) <= 1
    /\ \A k \in DOMAIN tasks[i].handlers : tasks[i].handlers[k] \in MessageHandlers
    /\ tasks[i].deletes <= 1

\* a message has gone through its whole handler, deleted once, while a join
\* event was being handled
ExactlyOneActionWitness ==
  /\ tasks[1].type = "message" /\ tasks[1].pc = "done"
  /\ tasks[1].handlers = <<"nsfw">> /\ tasks[1].deletes = 1
  /\ Len(tasks[1].audits) = 1
  /\ tasks[2].type = "join" /\ tasks[2].pc \notin {"idle", "done"}

\* C2: scorers are invoked in the order spam, nsfw, security, link; the
\* handler entered is that of the last scorer invoked (or spam on the rate
\* test alone), so no scorer runs after a positive verdict, and it is the
\* only handler entered.
ShortCircuit ==
  \A i \in Tasks : tasks[i].type = "message" =>
    LET t == tasks[i] IN
    /\ \A k \in 1..(Len(t.calls) - 1) : StageRank(t.calls[k]) < StageRank(t.calls[k + 1])
    /\ t.handler \in MessageHandlers =>
         /\ t.handlers = <<t.handler>>
         /\ \/ t.handler = "spam" /\ t.calls = <<>>
            \/ t.calls # <<>> /\ Last(t.calls) = ScorerOf(t.handler)
    /\ t.handler \notin MessageHandlers => t.handlers = <<>>

\* a message flagged by the spam scorer was handled as spam: no other scorer
\* ran and its attachment was never looked at
ShortCircuitWitness ==
  /\ tasks[1].type = "message" /\ tasks[1].pc = "done"
  /\ tasks[1].handlers = <<"spam">> /\ tasks[1].calls = <<"spam">>
  /\ tasks[1].kind = "unread" /\ tasks[1].audits = <<"SPAM_DELETED">>

WithinHorizon ==
  /\ \A c \in Chats, u \in Users : \A k \in DOMAIN user_message_count[c][u] :
       Last(msgLog[c][u]) - user_message_count[c][u][k] <= MsgHorizon
  /\ \A c \in Chats : \A k \in DOMAIN recent_joins[c] :
       Last(joinLog[c]) - recent_joins[c][k] <= JoinHorizon

\* the second update of a message window has dropped the timestamp of the
\* first, which was one horizon old
WithinHorizonWitness ==
  \E c \in Chats, u \in Users :
    /\ Len(msgLog[c][u]) = 2
    /\ msgLog[c][u][2] - msgLog[c][u][1] >= MsgHorizon
    /\ user_message_count[c][u] = <<msgLog[c][u][2]>>

\* C5 as stated: every window is non-decreasing, for any sequence of clock
\* readings.
WindowsNonDecreasing ==
  /\ \A c \in Chats, u \in Users : NonDecreasing(user_message_count[c][u])
  /\ \A c \in Chats : NonDecreasing(recent_joins[c])

\* C6: the rate test of a recorded message is positive iff the sender's
\* messages younger than the message horizon, this one included, are more
\* than max_messages_per_minute; a positive test sends it to the spam handler.
RateCheckExact ==
  \A i \in Tasks : tasks[i].type = "message" /\ tasks[i].recorded =>
    /\ tasks[i].positive = (tasks[i].recent > config.max_messages_per_minute)
    /\ tasks[i].positive => tasks[i].handlers = <<"spam">> /\ tasks[i].calls = <<>>

\* message L+1 of a sender is rate-flagged while message L was not
RateCheckWitness ==
  \E i, j \in Tasks :
    /\ tasks[i].type = "message" /\ tasks[j].type = "message"
    /\ tasks[i].chat = tasks[j].chat /\ tasks[i].user = tasks[j].user
    /\ tasks[i].recorded /\ ~tasks[i].positive
    /\ tasks[i].recent = config.max_messages_per_minute
    /\ tasks[j].positive /\ tasks[j].recent = config.max_messages_per_minute + 1

NoLostUpdate ==
  /\ \A c \in Chats, u \in Users : msgLog[c][u] # <<>> =>
       Len(user_message_count[c][u]) = CountRecent(msgLog[c][u], Last(msgLog[c][u]), MsgHorizon)
  /\ \A c \in Chats : joinLog[c] # <<>> =>
       Len(recent_joins[c]) = CountRecent(joinLog[c], Last(joinLog[c]), JoinHorizon)
  /\ \A i \in Tasks : tasks[i].recorded => tasks[i].wlen = tasks[i].recent

\* two messages of one sender are in flight together and both are in the
\* window
NoLostUpdateWitness ==
  /\ tasks[1].type = "message" /\ tasks[2].type = "message"
  /\ tasks[1].chat = tasks[2].chat /\ tasks[1].user = tasks[2].user
  /\ tasks[1].pc \notin {"idle", "done"} /\ tasks[2].pc \notin {"idle", "done"}
  /\ tasks[1].recorded /\ tasks[2].recorded
  /\ Len(user_message_count[tasks[1].chat][tasks[1].user]) = 2

\* C9 as stated: a message handler that ran without a failing call has
\* recorded one audit-log entry and incremented one counter.
OneAuditOneCounter ==
  \A i \in Tasks :
    tasks[i].pc = "done" /\ tasks[i].handler \in MessageHandlers /\ tasks[i].failed = {} =>
      Len(tasks[i].audits) = 1 /\ Len(tasks[i].stats) = 1

\* C10 as stated: a handler whose delete or notification call failed has
\* still recorded its audit-log entry and, where it has one, incremented
\* its counter.
FailSoft ==
  \A i \in Tasks :
    /\ tasks[i].pc = "done" /\ tasks[i].handler \in Handlers
    /\ tasks[i].failed \cap {"delete", "notify"} # {}
    => /\ tasks[i].audits = <<AuditAction(tasks[i].handler)>>
       /\ tasks[i].handler \in {"spam", "nsfw", "threat"} =>
            tasks[i].stats = <<StatKey(tasks[i].handler)>>

\* C11 as stated: a pipeline call suspends only in side-effect calls and does
\* not wait for the time-to-live of a notification: the coroutine of a
\* message is never suspended in the timer, and once its notification is
\* sent nothing but the calls themselves stands between it and its audit-log
\* entry.
NoTtlWait ==
  \A i \in Tasks : tasks[i].type = "message" =>
    /\ tasks[i].pc # "sleep"
    /\ tasks[i].notifies = 1 /\ tasks[i].audits = <<>> => tasks[i].wake = 0

\* the time-to-live the notification of each handler is given
RequiredTtl(h) ==
  CASE h = "nsfw" -> 10 [] h = "threat" -> 15 [] h = "link" -> 10 [] h = "raid" -> 30

\* C12 as stated: every notification that was sent is removed: a handler
\* that has sent its notification and has ended has removed it.
NotificationRemoved ==
  \A i \in Tasks :
    tasks[i].pc = "done" /\ tasks[i].notifies = 1 => tasks[i].removals = 1

\* C12 amended: the removal of a notification is called only once its
\* time-to-live has passed since it was sent, and for every notification
\* sent the removal is eventually called, once; it may fail, and then the
\* notification stays.
RemovalAfterTtl ==
  /\ [](\A i \in Tasks :
         /\ tasks[i].pc = "unwarn" =>
              /\ tasks[i].notifies = 1
              /\ clock - tasks[i].sent >= RequiredTtl(tasks[i].handler)
         /\ tasks[i].removals = 1 => tasks[i].pc \notin {"notify", "sleep", "unwarn"}
         /\ tasks[i].removals <= 1)
  /\ \A i \in Tasks :
       (tasks[i].notifies = 1) ~>
         (tasks[i].notifies = 1 /\ (tasks[i].removals = 1 \/ "unwarn" \in tasks[i].failed))

\* the warning of a blocked file was removed at the very reading at which
\* its time-to-live had passed
RemovalAfterTtlWitness ==
  \E i \in Tasks :
    /\ tasks[i].handler = "threat" /\ tasks[i].removals = 1
    /\ clock - tasks[i].sent = TtlThreat

\* C13: a failing removal of a notification changes nothing else: it is not
\* retried, the handler goes on to the calls that follow the removal, and
\* at its end it has recorded the audit-log entry and the counter it records
\* when the removal succeeds.
RemovalFailureIgnored ==
  \A i \in Tasks : "unwarn" \in tasks[i].failed =>
    LET t == tasks[i] IN
    /\ t.handler \in Handlers /\ t.notifies = 1 /\ t.removals = 0
    /\ t.pc \in {"log", "stat", "done"}
    /\ t.pc = "log" => t.handler \in {"nsfw", "threat", "link"} /\ t.audits = <<>>
    /\ t.pc = "stat" => t.handler \in {"nsfw", "threat"} /\ t.stats = <<>>
    /\ t.pc \in {"stat", "done"} => t.audits = <<AuditAction(t.handler)>>
    /\ t.pc = "done" =>
         t.stats = IF t.handler \in {"nsfw", "threat"} THEN <<StatKey(t.handler)>>
                   ELSE <<>>

\* the removal of an nsfw warning failed and the handler has ended with its
\* audit-log entry and its counter recorded
RemovalFailureIgnoredWitness ==
  \E i \in Tasks :
    /\ tasks[i].pc = "done" /\ tasks[i].handler = "nsfw"
    /\ tasks[i].failed = {"unwarn"}
    /\ tasks[i].audits = <<"NSFW_DELETED">> /\ tasks[i].stats = <<"nsfw_detected">>

\* number of entries of a sequence that equal x
Occurrences(w, x) == Cardinality({k \in DOMAIN w : w[k] = x})

\* C14: whatever calls fail, no exception leaves the coroutine of an event
\* (it ends, or goes on, inside the pipeline) and no call is made twice for
\* the event: at most one delete, one notification, one removal, one
\* audit-log entry, one counter increment, and each scorer at most once.
NothingEscapes ==
  \A i \in Tasks :
    LET t == tasks[i] IN
    /\ t.pc \in {"idle", "is_admin", "download", "delete", "notify", "sleep",
                 "unwarn", "log", "stat", "done"}
    /\ t.deletes <= 1 /\ t.notifies <= 1
    /\ t.removals + (IF "unwarn" \in t.failed THEN 1 ELSE 0) <= 1
    /\ Len(t.audits) <= 1 /\ Len(t.stats) <= 1
    /\ \A sc \in {"spam", "nsfw", "security", "link"} : Occurrences(t.calls, sc) <= 1
    /\ t.failed \cap {"delete", "notify"} # {} => t.pc = "done"

\* an event whose download, removal, audit-log write and counter write all
\* failed has ended
NothingEscapesWitness ==
  \E i \in Tasks :
    /\ tasks[i].pc = "done"
    /\ tasks[i].failed = {"download", "unwarn", "log", "stat"}

\* C15 as stated: a message whose image could not be downloaded or decoded,
\* or whose document has no image mime type to look at, is taken as not
\* nsfw and goes on through the later stages; unless one of them is positive
\* it is counted as processed and not deleted.
FailOpen ==
  \A i \in Tasks :
    LET t == tasks[i] IN
    /\ t.type = "message"
    /\ t.failed \cap {"download", "decode"} # {} \/ t.kind = "document"
    => /\ t.handler \in {"threat", "link", "processed"}
       /\ "decode" \notin t.failed => Occurrences(t.calls, "nsfw") = 0
       /\ SecurityStageApplies(t) => Occurrences(t.calls, "security") = 1
       /\ t.handler = "processed" =>
            /\ t.deletes = 0 /\ t.notifies = 0 /\ t.audits = <<>>
            /\ t.pc = "done" => t.stats = <<"messages_processed">>

\* C16: a recorded message that no stage flags is counted as processed and
\* nothing else: one increment of messages_processed, no delete, no
\* notification, no audit-log entry; a message that a stage flags never
\* increments messages_processed; every recorded message ends as one or the
\* other.
ProcessedOnly ==
  \A i \in Tasks :
    LET t == tasks[i] IN
    t.type = "message" /\ t.recorded =>
      /\ t.handler = "processed" =>
           /\ t.handlers = <<>>
           /\ t.deletes = 0 /\ t.notifies = 0 /\ t.removals = 0 /\ t.audits = <<>>
           /\ t.pc \in {"stat", "done"}
           /\ t.stats = IF t.pc = "done" THEN <<"messages_processed">> ELSE <<>>
      /\ t.handler \in MessageHandlers => Occurrences(t.stats, "messages_processed") = 0
      /\ t.pc = "done" => t.handler \in MessageHandlers \cup {"processed"}

\* an image document with a link in its caption went through all four
\* scorers unflagged and was counted as processed
ProcessedOnlyWitness ==
  \E i \in Tasks :
    /\ tasks[i].pc = "done" /\ tasks[i].handler = "processed"
    /\ tasks[i].calls = <<"spam", "nsfw", "security", "link">>
    /\ tasks[i].stats = <<"messages_processed">> /\ tasks[i].deletes = 0

\* C17: a message in a group that is not enabled, or from an administrator
\* or the creator of the group, is dropped at the gate: its coroutine ends
\* without a scorer, delete, notification, audit-log entry or counter
\* increment, and the step that drops it changes no activity window.
GateFirst ==
  /\ [](\A i \in Tasks :
         LET t == tasks[i] IN
         t.type = "message" /\ (t.admin \/ t.chat \notin enabled_groups) =>
           /\ t.pc = "done" /\ ~t.recorded
           /\ t.calls = <<>> /\ t.handlers = <<>> /\ t.failed = {}
           /\ t.deletes = 0 /\ t.notifies = 0 /\ t.audits = <<>> /\ t.stats = <<>>)
  /\ [][\A i \in Tasks :
         /\ tasks'[i] # tasks[i]
         /\ tasks'[i].type = "message"
         /\ tasks'[i].admin \/ tasks'[i].chat \notin enabled_groups
         => /\ user_message_count' = user_message_count
            /\ recent_joins' = recent_joins
            /\ msgLog' = msgLog]_vars

\* after a recorded message of the sender, a message of the same sender, now
\* an administrator, was dropped and the window still holds one entry
GateFirstWitness ==
  \E i \in Tasks :
    /\ tasks[i].type = "message" /\ tasks[i].admin /\ tasks[i].pc = "done"
    /\ arrived = 2
    /\ Len(user_message_count[tasks[i].chat][tasks[i].user]) = 1

\* C18 as stated: an accepted /set_threshold issued in one group leaves the
\* thresholds applied to the events of every other group as they were.
GroupsIndependent ==
  [][\A c \in Chats :
       command' # command /\ command'.accepted /\ command'.chat # c
       => ThresholdsApplied(c)' = ThresholdsApplied(c)]_vars

\* C19 as stated: once /set_threshold spam v was accepted, a message is
\* rate-flagged iff the window of its sender, the message included, is
\* longer than v.
SpamThresholdIsRateLimit ==
  [][\A i \in Tasks :
       /\ command.accepted /\ command.type = "spam"
       /\ tasks[i].pc = "is_admin" /\ tasks'[i].recorded
       => tasks'[i].positive = (tasks'[i].wlen > command.value \div 100)]_vars

\* C20 as stated: in every state nsfw_threshold is within [0, 1], the
\* message-rate limit is at least 1 and raid_threshold is at least 1.
ConfigInBounds ==
  /\ 0 <= config.nsfw_threshold /\ config.nsfw_threshold <= 100
  /\ config.max_messages_per_minute >= 1
  /\ config.raid_threshold >= 1

\* C29: a scorer is invoked only for a message its stage applies to: the
\* nsfw detector only for a photo, a sticker or a document with an image
\* mime type, the security scanner only for a document, an audio or a video,
\* the link scanner only for a text with a URL-like token.
ScorerOnlyWhenApplies ==
  \A i \in Tasks :
    LET t == tasks[i] IN
    /\ Occurrences(t.calls, "nsfw") > 0 => t.kind \in {"photo", "sticker", "document_image"}
    /\ Occurrences(t.calls, "security") > 0 =>
         t.kind \in {"document_image", "document", "audio", "video"}
    /\ Occurrences(t.calls, "link") > 0 => t.text = "url_token"
    /\ t.pc = "download" => t.kind \in {"photo", "sticker", "document_image"}

\* a plain document with a link in its text went to the security scanner
\* and the link scanner, not to the nsfw detector
ScorerOnlyWhenAppliesWitness ==
  \E i \in Tasks :
    /\ tasks[i].kind = "document" /\ tasks[i].text = "url_token"
    /\ tasks[i].calls = <<"spam", "security", "link">>

\* C30 as stated: the window size a RAID_DETECTED audit-log entry carries is
\* the length of the join window its raid check observed.
RaidAuditSize ==
  \A i \in Tasks :
    tasks[i].type = "join" /\ tasks[i].audits = <<"RAID_DETECTED">> =>
      tasks[i].detail = tasks[i].wlen

\* the sender of the last command is an admin of a group or supergroup
FromGroupAdmin(cmd) ==
  cmd.status \in {"creator", "administrator"} /\ cmd.ctype \in {"group", "supergroup"}

\* C21: a /set_threshold from a group admin is accepted iff it has two
\* arguments, a numeric value and a known type whose range holds the value
\* (nsfw 0.0 to 1.0, spam 1 to 20, raid 5 to 50); an accepted one changes
\* the named threshold and nothing else and records THRESHOLD_CHANGED, a
\* rejected one changes no threshold and records nothing.
ThresholdCommandEffect ==
  [][command' # command /\ command'.name = "set_threshold" /\ FromGroupAdmin(command')
     => LET a == command'
            valid ==
              /\ a.argc = 2 /\ a.numeric
              /\ \/ a.type = "nsfw" /\ 0 <= a.value /\ a.value <= 100
                 \/ a.type = "spam" /\ 100 <= a.value /\ a.value <= 2000
                 \/ a.type = "raid" /\ 500 <= a.value /\ a.value <= 5000
        IN IF valid
           THEN /\ a.accepted /\ a.audit = "THRESHOLD_CHANGED"
                /\ a.type = "nsfw" => config' = [config EXCEPT !.nsfw_threshold = a.value]
                /\ a.type = "spam" =>
                     config' = [config EXCEPT !.spam_threshold = a.value \div 100]
                /\ a.type = "raid" =>
                     config' = [config EXCEPT !.raid_threshold = a.value \div 100]
           ELSE ~a.accepted /\ a.audit = "none" /\ config' = config]_vars

\* after an accepted /set_threshold spam 1, /set_threshold spam 21 from a
\* group admin was rejected and the spam threshold is still 1
ThresholdCommandEffectWitness ==
  /\ command.name = "set_threshold" /\ FromGroupAdmin(command)
  /\ command.type = "spam" /\ command.value = 2100 /\ ~command.accepted
  /\ config.spam_threshold = 1

\* C22: a /status, /enable, /disable or /set_threshold whose sender is not
\* an admin of the chat, or whose chat is not a group or supergroup, is
\* denied: the enabled set and the thresholds stay as they were and no
\* audit-log entry is recorded.
PrivilegedOnly ==
  [][command' # command /\ ~FromGroupAdmin(command')
     => /\ ~command'.accepted /\ command'.audit = "none"
        /\ enabled_groups' = enabled_groups
        /\ config' = config]_vars

\* /enable from an administrator in a private chat was denied and the chat
\* is not enabled
PrivilegedOnlyWitness ==
  /\ command.name = "enable" /\ command.status = "administrator"
  /\ command.ctype = "private" /\ ~command.accepted
  /\ command.chat \notin enabled_groups

\* C23: when block_suspicious_links is off the link scan of every text is
\* negative and no message is ever handled as a suspicious link; when
\* copyright_detection is off the scan of every audio and of every video is
\* negative.
TogglesOff ==
  /\ ~config.block_suspicious_links =>
       /\ scored.fn = "message" => ~scored.links
       /\ \A i \in Tasks : tasks[i].handler # "link"
  /\ (~config.copyright_detection /\ scored.fn = "message"
        /\ scored.content.kind \in {"audio", "video"}) => ~scored.threat

\* a text with a link the scan would flag went through the whole pipeline
\* with the toggle off
TogglesOffWitness ==
  /\ ~config.block_suspicious_links
  /\ scored.fn = "message" /\ scored.for = arrived
  /\ scored.content.text.body = "see http://www.Malware.com/a"
  /\ tasks[1].pc = "done" /\ "link" \in Range(tasks[1].calls)

\* C24: a recorded message is handled as spam iff its rate check was
\* positive or its content score is above 0.6; the detector's verdict is
\* spam iff the confidence is above 0.6, whatever spam_threshold holds, so a
\* score of exactly 0.6 is not spam.
SpamIffRateOrScore ==
  (scored.fn = "message" /\ scored.for = arrived) =>
    /\ scored.spam.is_spam <=> scored.spam.confidence > 6
    /\ tasks[1].recorded =>
         (tasks[1].handler = "spam" <=> (tasks[1].positive \/ scored.spam.confidence > 6))

\* after an admin changed spam_threshold, a text that matches exactly two
\* patterns and nothing else scored 0.6 and went on as an ordinary message
SpamIffRateOrScoreWitness ==
  /\ scored.fn = "message" /\ scored.for = arrived
  /\ config.spam_threshold # DefaultConfig.spam_threshold
  /\ scored.spam.matched.patterns = 2 /\ scored.spam.confidence = 6
  /\ tasks[1].recorded /\ ~tasks[1].positive
  /\ tasks[1].handler = "processed"

\* the matched sets with one indicator more than ind
Extensions(ind) ==
  {[ind EXCEPT !.patterns = @ + 1], [ind EXCEPT !.domains = @ + 1]}
    \cup {[ind EXCEPT ![f] = TRUE] : f \in {g \in {"caps", "punct", "repetition", "emoji"} : ~ind[g]}}

\* C25: the spam confidence is the sum of the weights of the matched
\* indicators (0.3 per pattern, 0.4 capitals, 0.3 punctuation, 0.5 per
\* spam-domain URL, 0.4 repetition, 0.3 emoji) clipped to [0,1]: it lies in
\* [0,1] and does not decrease when one more indicator is matched.
ConfidenceClippedSum ==
  scored.fn = "message" =>
    LET ind == scored.spam.matched
        sum == 3 * ind.patterns + (IF ind.caps THEN 4 ELSE 0)
                 + (IF ind.punct THEN 3 ELSE 0) + 5 * ind.domains
                 + (IF ind.repetition THEN 4 ELSE 0) + (IF ind.emoji THEN 3 ELSE 0)
    IN /\ scored.spam.confidence = (IF sum > 10 THEN 10 ELSE sum)
       /\ 0 <= scored.spam.confidence /\ scored.spam.confidence <= 10
       /\ \A more \in Extensions(ind) :
            AnalyzeIndicators(more).confidence >= scored.spam.confidence

\* a text whose weights add up to more than 1: two patterns and a spam domain
ConfidenceClippedSumWitness ==
  /\ scored.fn = "message"
  /\ scored.spam.matched.patterns = 2 /\ scored.spam.matched.domains = 1
  /\ scored.spam.confidence = 10

\* C26 as stated: the text "WIN FREE BITCOIN NOW!!! http://bit.ly/x" is
\* flagged spam by the spam detector, its indicators adding up to a
\* confidence above 0.6.
FixtureFlagged ==
  (scored.fn = "message"
     /\ scored.content.text = Text("WIN FREE BITCOIN NOW!!! http://bit.ly/x", 0)) =>
    /\ scored.spam.is_spam
    /\ scored.spam.confidence > 6

\* C27: for every result of the nsfw detector (an image, an animated sticker
\* with its fixed confidence 0.3, an error) and every nsfw_threshold in
\* [0,1], is_nsfw holds exactly when the confidence is above the threshold,
\* and the confidence lies in [0,1].
VerdictIsComparison ==
  (scored.fn \in {"detect_image", "detect_sticker"}
     /\ 0 <= config.nsfw_threshold /\ config.nsfw_threshold <= 100) =>
    LET r == scored.result
    IN /\ r.is_nsfw <=> r.confidence.num > config.nsfw_threshold * r.confidence.den
       /\ r.confidence.den > 0
       /\ 0 <= r.confidence.num /\ r.confidence.num <= 100 * r.confidence.den
       /\ r.model_used = "animated_analyzer" => r.confidence = Fraction(30, 1)

\* an animated sticker met a threshold of exactly 0.3 and was let through
VerdictIsComparisonWitness ==
  /\ scored.fn = "detect_sticker" /\ scored.file.path = "tgs"
  /\ config.nsfw_threshold = 30
  /\ scored.result.model_used = "animated_analyzer" /\ ~scored.result.is_nsfw

\* C28 as stated: for every image of width and height at least 1 the
\* denominator of the skin ratio is the number of pixels the detector
\* sampled, so the ratio before amplification lies in [0,1].
SkinRatioDenominator ==
  (scored.fn = "detect_image" /\ scored.file.path = "static" /\ scored.file.decodable) =>
    /\ scored.sampled_pixels = VisitedPixels(scored.file.height, scored.file.width)
    /\ scored.skin_ratio.num <= scored.skin_ratio.den

\* C31: recording a message of (g, u) changes only the message window of
\* (g, u) and recording a join in g changes only the join window of g: a
\* step changes a window only if it records an event under that window's
\* key, and no step records under two keys.
WindowsIsolated ==
  [][/\ \A c \in Chats : joinLog'[c] = joinLog[c] => recent_joins'[c] = recent_joins[c]
     /\ \A c \in Chats, u \in Users :
          msgLog'[c][u] = msgLog[c][u] => user_message_count'[c][u] = user_message_count[c][u]
     /\ msgLog' # msgLog =>
          /\ recent_joins' = recent_joins
          /\ Cardinality({k \in Chats \X Users : msgLog'[k[1]][k[2]] # msgLog[k[1]][k[2]]}) = 1
     /\ joinLog' # joinLog =>
          /\ user_message_count' = user_message_count
          /\ Cardinality({c \in Chats : joinLog'[c] # joinLog[c]}) = 1]_vars

\* a message of (1, 1) was recorded at 0 and a join in group 2 at 60, and
\* the windows of the other keys are as they were
WindowsIsolatedWitness ==
  /\ user_message_count[1][1] = <<0>> /\ recent_joins[2] = <<MsgHorizon>>
  /\ user_message_count[1][2] = <<>> /\ user_message_count[2][1] = <<>>
  /\ user_message_count[2][2] = <<>> /\ recent_joins[1] = <<>>

\* the terminal outcomes of a message: gated out (group disabled or sender
\* privileged), one category handler entered, counted as processed
GatedOut(t) == ~t.recorded /\ t.handlers = <<>> /\ t.handler = "none"
Acted(t) == t.recorded /\ Len(t.handlers) = 1 /\ t.handler \in MessageHandlers
Processed(t) == t.recorded /\ t.handlers = <<>> /\ t.handler = "processed"

\* C32: every process_message call terminates, provided every call it makes
\* returns or raises in finite time, and it ends in exactly one outcome
\* (gated out, one category action, counted as processed) without making
\* any call twice.
EventuallyResolved ==
  /\ [](\A i \in Tasks : tasks[i].type = "message" =>
          /\ tasks[i].pc \in {"is_admin", "download", "delete", "notify", "sleep",
                              "unwarn", "log", "stat", "done"}
          /\ tasks[i].deletes <= 1 /\ tasks[i].notifies <= 1 /\ tasks[i].removals <= 1
          /\ Len(tasks[i].audits) <= 1 /\ Len(tasks[i].stats) <= 1
          /\ tasks[i].pc = "done" =>
               Cardinality({o \in {"gated", "acted", "processed"} :
                 \/ o = "gated" /\ GatedOut(tasks[i])
                 \/ o = "acted" /\ Acted(tasks[i])
                 \/ o = "processed" /\ Processed(tasks[i])}) = 1)
  /\ \A i \in Tasks :
       (tasks[i].type = "message" /\ tasks[i].pc # "done") ~> (tasks[i].pc = "done")

\* a message whose deletion raised has ended in its one handler
EventuallyResolvedWitness ==
  /\ tasks[1].type = "message" /\ tasks[1].pc = "done"
  /\ tasks[1].handlers = <<"nsfw">> /\ "delete" \in tasks[1].failed

\* the slot the next event is given
NewSlot == CHOOSE i \in Tasks : tasks[i].pc \in {"idle", "done"} /\ FirstFree(i)
\* the member update of task t was not a new join in an enabled group; an
\* attribute of the update the handler did not look at is "unread"
NotCounted(t) ==
  /\ t.type = "join"
  /\ t.chat \notin enabled_groups \/ t.old # "none" \/ t.status # "member"

\* C33: a member update in a disabled group, or one that is not a new join
\* (old member record present, or new status other than member), leaves the
\* join window of its group as it was and never dispatches a raid alert.
OnlyNewJoinsCount ==
  /\ [](\A i \in Tasks : NotCounted(tasks[i]) =>
          /\ ~tasks[i].recorded /\ tasks[i].pc = "done"
          /\ tasks[i].handlers = <<>> /\ tasks[i].notifies = 0 /\ tasks[i].audits = <<>>)
  /\ [][(arrived' # arrived /\ NotCounted(tasks'[NewSlot])) =>
          /\ recent_joins' = recent_joins
          /\ breachAlerts' = breachAlerts]_vars

\* with a raid threshold of one, a member who had left came back to an
\* enabled group right after a new join: the window still holds the one join
OnlyNewJoinsCountWitness ==
  /\ config.raid_threshold = 1 /\ 1 \in enabled_groups
  /\ tasks[1].type = "join" /\ tasks[1].chat = 1 /\ tasks[1].recorded
  /\ tasks[2].type = "join" /\ tasks[2].chat = 1
  /\ tasks[2].old = "left" /\ tasks[2].pc = "done" /\ ~tasks[2].recorded
  /\ recent_joins[1] = <<0>>

\* C34 as stated: once a group has been disabled, no delete, notification
\* or audit-logged action is issued for it until it is enabled again, also
\* not by a handler whose event passed the gate before the disable.
NoActionWhileDisabled ==
  [][\A i \in Tasks :
       (tasks'[i].pc \in {"delete", "notify", "log"} /\ tasks'[i].pc # tasks[i].pc) =>
         tasks'[i].chat \in enabled_groups']_vars

\* ---------------------------------------------------------------------
\* Startup: GuardianBot.start against enable commands
\* ---------------------------------------------------------------------

\* the state of a bot that has been constructed and whose start is
\* waiting in app.start: the in-memory set is empty, the table holds what
\* an earlier run left
InitStart ==
  /\ clock = 0
  /\ tasks = [i \in Tasks |-> IdleTask]
  /\ user_message_count = [c \in Chats |-> [u \in Users |-> <<>>]]
  /\ recent_joins = [c \in Chats |-> <<>>]
  /\ enabled_groups = {}
  /\ config = DefaultConfig
  /\ arrived = 0
  /\ msgLog = [c \in Chats |-> [u \in Users |-> <<>>]]
  /\ joinLog = [c \in Chats |-> <<>>]
  /\ breachAlerts = [c \in Chats |-> 0]
  /\ command = NoCommand
  /\ scored = NoScore
  /\ groups_table \in SUBSET Chats
  /\ boot = [start |-> "app_start", rows |-> {}, enable |-> [c \in Chats |-> "idle"]]

\* app.start returns: the client accepts events from here on, and start
\* is suspended in get_enabled_groups
AppStarted ==
  /\ boot.start = "app_start"
  /\ boot' = [boot EXCEPT !.start = "select"]
  /\ UNCHANGED <<clock, tasks, user_message_count, recent_joins, enabled_groups,
                 config, arrived, msgLog, joinLog, breachAlerts, command, scored,
                 groups_table>>

\* get_enabled_groups reads the rows (an exception gives the empty list);
\* start stays suspended while the connection closes
GetEnabledGroups(ok) ==
  /\ boot.start = "select"
  /\ boot' = [boot EXCEPT !.start = "rows", !.rows = IF ok THEN groups_table ELSE {}]
  /\ UNCHANGED <<clock, tasks, user_message_count, recent_joins, enabled_groups,
                 config, arrived, msgLog, joinLog, breachAlerts, command, scored,
                 groups_table>>

\* start resumes: self.enabled_groups = set(enabled_groups)
AssignEnabledGroups ==
  /\ boot.start = "rows"
  /\ enabled_groups' = boot.rows
  /\ boot' = [boot EXCEPT !.start = "done"]
  /\ UNCHANGED <<clock, tasks, user_message_count, recent_joins,
                 config, arrived, msgLog, joinLog, breachAlerts, command, scored,
                 groups_table>>

\* /enable in chat c from an administrator, up to the suspension of
\* enable_group in set_group_enabled: the chat is not enabled, it is added
\* to the in-memory set
EnableGroupCall(c) ==
  /\ boot.start # "app_start"
  /\ boot.enable[c] # "writing"
  /\ c \notin enabled_groups
  /\ enabled_groups' = enabled_groups \cup {c}
  /\ boot' = [boot EXCEPT !.enable[c] = "writing"]
  /\ UNCHANGED <<clock, tasks, user_message_count, recent_joins,
                 config, arrived, msgLog, joinLog, breachAlerts, command, scored,
                 groups_table>>

\* set_group_enabled(c, True) returns (an exception is swallowed and the
\* row is not written): enable_group has completed, the audit entry is
\* logged
EnableGroupReturns(c, ok) ==
  /\ boot.enable[c] = "writing"
  /\ groups_table' = IF ok THEN groups_table \cup {c} ELSE groups_table
  /\ boot' = [boot EXCEPT !.enable[c] = "done"]
  /\ command' = [NoCommand EXCEPT !.name = "enable", !.chat = c, !.ctype = "supergroup",
                    !.status = "administrator", !.accepted = TRUE,
                    !.audit = "GROUP_ENABLED"]
  /\ UNCHANGED <<clock, tasks, user_message_count, recent_joins, enabled_groups,
                 config, arrived, msgLog, joinLog, breachAlerts, scored>>

NextStart ==
  \/ AppStarted
  \/ \E ok \in BOOLEAN : GetEnabledGroups(ok)
  \/ AssignEnabledGroups
  \/ \E c \in Chats : EnableGroupCall(c)
  \/ \E c \in Chats, ok \in BOOLEAN : EnableGroupReturns(c, ok)

SpecStart == InitStart /\ [][NextStart]_vars

\* C35: once start has completed, every group whose enable_group call has
\* completed is in the in-memory enabled set (no disable is issued here)
EnableSurvivesStart ==
  boot.start = "done" =>
    \A c \in Chats : boot.enable[c] = "done" => c \in enabled_groups

\* the step is the command named n in chat c (a repeated refused command
\* changes nothing and is a stuttering step)
Ran(n, c) == command'.name = n /\ command'.chat = c /\ command' # command

NextDenied ==
  \/ \E c \in Chats : StartMessage(1, c, 1)
  \/ \E c \in Chats : JoinArrives(2, c, TRUE)
  \/ \E i \in Tasks, sv \in BOOLEAN :
       AdminReturns(i, "error", sv, "none", "plain", FALSE, FALSE)
  \/ HandlerStep
  \/ \E i \in Tasks : Elapse(i)
  \/ \E c \in Chats, res \in {"administrator", "error"} : EnableCommand(c, "supergroup", res)
  \/ \E c \in Chats, res \in {"administrator", "error"} : DisableCommand(c, "supergroup", res)

SpecDenied == Init /\ [][NextDenied]_vars

\* C37: when get_chat_member raises, the sender counts as non-privileged:
\* the message is appended to the sender's activity window and enters the
\* pipeline (rate test, then the spam scorer), and an /enable or /disable
\* of that sender is refused, changes nothing and logs nothing.
ErrorMeansNotPrivileged ==
  /\ [][\A i \in Tasks :
          tasks[i].pc = "is_admin" /\ tasks'[i] # tasks[i] =>
            LET t == tasks'[i]
                w == user_message_count'[t.chat][t.user]
            IN /\ ~t.admin /\ t.recorded
               /\ w # <<>> /\ w[Len(w)] = clock
               /\ msgLog'[t.chat][t.user] = Append(msgLog[t.chat][t.user], clock)
               /\ t.pc # "done"
               /\ t.positive \/ (t.calls # <<>> /\ Head(t.calls) = "spam")]_vars
  /\ [](command.status = "error" => ~command.accepted /\ command.audit = "none")
  /\ [][command'.status = "error" /\ command' # command =>
          /\ enabled_groups' = enabled_groups
          /\ groups_table' = groups_table
          /\ config' = config]_vars

\* a message whose privilege check raised has been recorded and counted as
\* processed, and the sender's /disable in that enabled group was refused
ErrorMeansNotPrivilegedWitness ==
  /\ tasks[1].type = "message" /\ tasks[1].pc = "done"
  /\ tasks[1].recorded /\ tasks[1].handler = "processed"
  /\ command.name = "disable" /\ command.status = "error"
  /\ command.chat = tasks[1].chat /\ command.chat \in enabled_groups

\* ---------------------------------------------------------------------
\* Documents: the bot starts with auto_delete_executables and
\* copyright_detection on or off; members send documents
\* ---------------------------------------------------------------------
DocumentEnvironments ==
  {[NSFW_THRESHOLD |-> Unset, SPAM_THRESHOLD |-> Unset,
    MAX_MESSAGES_PER_MINUTE |-> Unset, RAID_THRESHOLD |-> Unset,
    BLOCK_SUSPICIOUS_LINKS |-> Unset, COPYRIGHT_DETECTION |-> c,
    AUTO_DELETE_EXECUTABLES |-> a] :
     c \in {Unset, Word("false")}, a \in {Word("on"), Word("no")}}

FileNames ==
  {"Setup.EXE", "notes.txt", "keygen.zip", "webrip.mkv", ".exe", "run.sh.txt",
   "tools/b.js", ""}
MimeTypes == {"application/pdf", "application/x-executable"}
FileSizes == {0, MaxSize, MaxSize + 1}

\* the documents members send, without a caption
Documents ==
  {Content("document", Text("", 0), Document(n, m, z)) :
     n \in FileNames, m \in MimeTypes, z \in FileSizes}

InitDocuments ==
  /\ clock = 0
  /\ tasks = [i \in Tasks |-> IdleTask]
  /\ user_message_count = [c \in Chats |-> [u \in Users |-> <<>>]]
  /\ recent_joins = [c \in Chats |-> <<>>]
  /\ enabled_groups = Chats
  /\ config \in {LoadConfig(env) : env \in DocumentEnvironments}
  /\ arrived = 0
  /\ msgLog = [c \in Chats |-> [u \in Users |-> <<>>]]
  /\ joinLog = [c \in Chats |-> <<>>]
  /\ breachAlerts = [c \in Chats |-> 0]
  /\ command = NoCommand
  /\ scored = NoScore
  /\ groups_table = enabled_groups
  /\ boot = Started

NextDocuments ==
  \/ StartMessage(1, 1, 1)
  \/ \E m \in Documents : ScoreMessage(1, m)
  \/ HandlerStep
  \/ Elapse(1)

SpecDocuments == InitDocuments /\ [][NextDocuments]_vars

\* the last message scored is a document and slot 1 still holds it
DocumentScored ==
  /\ scored.fn = "message" /\ scored.for = arrived
  /\ scored.content.kind = "document"
  /\ tasks[1].type = "message"

\* C38: the verdict scan_document gave for a document is the verdict it
\* gives for the same name, mime type and size with auto_delete_executables
\* on and with it off; a name with a dangerous extension is flagged whatever
\* the two toggles are; and the threat handler, with its delete, is entered
\* exactly when the verdict is a threat.
DocumentVerdictIgnoresAutoDelete ==
  DocumentScored =>
    LET d == scored.content.media
    IN /\ \A a \in BOOLEAN :
            scored.threat = ScanDocument([config EXCEPT !.auto_delete_executables = a], d)
       /\ ToLower(Suffix(ToLower(d.file_name))) \in DangerousExtensions => scored.threat
       /\ scored.threat <=> tasks[1].handlers = <<"threat">>
       /\ tasks[1].pc = "done" /\ "delete" \notin tasks[1].failed
            => tasks[1].deletes = (IF scored.threat THEN 1 ELSE 0)

\* an executable was flagged and deleted with auto_delete_executables and
\* copyright_detection both off
DocumentVerdictIgnoresAutoDeleteWitness ==
  /\ DocumentScored
  /\ ~config.auto_delete_executables /\ ~config.copyright_detection
  /\ scored.content.media = Document("Setup.EXE", "application/pdf", 0)
  /\ scored.threat
  /\ tasks[1].pc = "done" /\ tasks[1].deletes = 1
====
